----------------------------- MODULE CommentsDB -----------------------------
(***************************************************************************)
(* src/utils/update_ai_comments.py: a description of a function is put     *)
(* into a TinyDB database of function comments.  Records are found by      *)
(* regular expressions: q.search(x) holds if x occurs in the field,        *)
(* q.matches(x) if the field begins with x.  The records found are read    *)
(* once; each turn of the loop then rewrites every record that matches     *)
(* from what was read of one of them.                                      *)
(***************************************************************************)
EXTENDS Integers, Sequences

CONSTANTS
    Names, Files,   \* function names and file paths of records
    Relations,      \* what the regular expressions see of names and paths: occurs holds
                    \* <<x, y>> if name x occurs in name y, begins if y begins with x, inPath
                    \* if the last component of path x occurs in path y
    Blank,          \* the placeholder "{}" that records are created with
    InitialDBs,     \* databases to start with
    MaxUpdates      \* bound on the number of updates

Comment == [fn : Names, file : Files, nr : Nat]     \* nr: which update wrote it
Record == [fn : Names, file : Files, descs : Seq(Comment \cup {Blank})]

VARIABLES
    rel,        \* one of Relations, which never changes
    db,         \* the records
    com, res,   \* comment_dict, and the numbers of the records found that are left to visit
    old,        \* the records when the search was made, from which those found are read
    updates     \* the number of updates

vars == <<rel, db, com, res, old, updates>>

Found(c, r) == <<c.fn, r.fn>> \in rel.occurs /\ <<c.file, r.file>> \in rel.inPath
Matches_FileOnly(c, r) == <<c.file, r.file>> \in rel.inPath
Matches(c, r) == <<c.fn, r.fn>> \in rel.begins /\ <<c.file, r.file>> \in rel.inPath
Idle == res = {}

Init ==
    /\ rel \in Relations
    /\ db \in InitialDBs
    /\ com = Blank /\ res = {} /\ old = db /\ updates = 0

Search(n, f) ==
    LET c == [fn |-> n, file |-> f, nr |-> updates + 1]
    IN  /\ Idle /\ updates < MaxUpdates
        /\ com' = c /\ updates' = updates + 1
        /\ res' = {i \in 1 .. Len(db) : Found(c, db[i])}
        /\ old' = db
        /\ UNCHANGED <<rel, db>>

NewDescs_AppendsOnly(ds) == ds
(* The only description is replaced, whatever it says; otherwise the new   *)
(* one is added to those that were read.                                   *)
NewDescs(ds) == IF Len(ds) = 1 THEN <<com>> ELSE Append(ds, com)

\* One turn of the loop, for the record k, the first one left.
UpdateMatching ==
    \E k \in res :
        /\ \A x \in res : k <= x
        /\ db' = [i \in 1 .. Len(db) |->
                     IF Matches(com, db[i]) THEN [db[i] EXCEPT !.descs = NewDescs(old[k].descs)]
                                            ELSE db[i]]
        /\ res' = res \ {k}
        /\ UNCHANGED <<rel, com, old, updates>>

Next == (\E n \in Names, f \in Files : Search(n, f)) \/ UpdateMatching
Spec == Init /\ [][Next]_vars
-----------------------------------------------------------------------------
(* Type correctness. *)
TypeOK ==
    /\ rel \in Relations
    /\ db \in Seq(Record) /\ old \in Seq(Record) /\ res \subseteq 1 .. Len(old)
    /\ com \in Comment \cup {Blank} /\ updates \in Nat

(* After an update the records that match the function hold the same       *)
(* descriptions, of which the new one is the last, once.                   *)
Annotated ==
    Idle /\ com # Blank =>
        \A i, j \in 1 .. Len(db) :
            Matches(com, db[i]) /\ Matches(com, db[j]) =>
                /\ db[i].descs = db[j].descs
                /\ db[i].descs # <<>>
                /\ \A k \in 1 .. Len(db[i].descs) : db[i].descs[k] = com <=> k = Len(db[i].descs)

Distinct == \A x \in rel.occurs \cup rel.inPath : x[1] = x[2]
OneEach ==
    \A i, j \in 1 .. Len(db) : db[i].fn = db[j].fn /\ db[i].file = db[j].file => i = j

(* If no name occurs in another and no two paths share their last          *)
(* component, a record only holds descriptions of its own function.        *)
Own(r) == \A k \in 1 .. Len(r.descs) : r.descs[k] # Blank =>
              r.descs[k].fn = r.fn /\ r.descs[k].file = r.file
OwnDescriptions == Distinct => \A i \in 1 .. Len(db) : Own(db[i])

(* Under the same conditions, and with one record for each function, an    *)
(* update of a record with several descriptions loses none of them.        *)
HistoryKept ==
    Distinct /\ OneEach /\ Idle => \A i \in 1 .. Len(db) :
        Len(old[i].descs) # 1 =>
            /\ Len(old[i].descs) <= Len(db[i].descs)
            /\ \A k \in 1 .. Len(old[i].descs) : db[i].descs[k] = old[i].descs[k]
=============================================================================
