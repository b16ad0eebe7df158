-------------------------- MODULE VerifyExtraction --------------------------
(***************************************************************************)
(* src/verify_extraction.py: two network namespaces, each joined to the    *)
(* host by a veth pair, are set up command by command, the extracted       *)
(* program is attached to veth1 at the XDP hook, the TC hook or both, and  *)
(* the attached programs are listed.  run_cmd ends the script at the first *)
(* command that fails; nothing is undone (clean is never called), and the  *)
(* script may be run again on the same machine.                            *)
(***************************************************************************)
EXTENDS Integers, Sequences

CONSTANTS
    Faulty,     \* TRUE: any command may fail, for reasons of its own
    MaxRuns     \* bound on the number of runs

VARIABLES
    hooks,          \* the hook points that -x and -t ask for
    status, todo,   \* of the script, and the commands it has still to run
    done,           \* commands with an effect that the machine still shows
    runs, boots     \* runs of the script since the machine was booted, boots

vars == <<hooks, status, todo, done, runs, boots>>

Hooks == {"xdp", "tc"}
Peers == 1 .. 2
(* A command and the number of its namespace, 1 for veth1. *)
Cmd(c, i) == [c |-> c, i |-> i]
Setup == <<"netns add", "link add", "link set netns", "ns up", "ns lo up", "up",
           "ns ifconfig", "ifconfig", "ns route">>
Attach == <<"xdp obj", "qdisc add", "filter add", "bpftool net">>
Commands == [c : {Setup[k] : k \in 1 .. Len(Setup)} \cup {Attach[k] : k \in 1 .. Len(Attach)},
             i : Peers]

SetupInterfaces(i) == [k \in 1 .. Len(Setup) |-> Cmd(Setup[k], i)]
AttachAtXdp(hs) == IF "xdp" \in hs THEN <<Cmd("xdp obj", 1)>> ELSE <<>>
AttachAtTc(hs) == IF "tc" \in hs THEN <<Cmd("qdisc add", 1), Cmd("filter add", 1)>> ELSE <<>>
(* main, after the arguments were accepted. *)
Script(hs) ==
    SetupInterfaces(1) \o SetupInterfaces(2) \o AttachAtXdp(hs) \o AttachAtTc(hs)
    \o <<Cmd("bpftool net", 1)>>

(* What a command needs of the machine, and whether the machine rejects a  *)
(* second execution.                                                       *)
Needs(c) ==
    CASE c \in {"link set netns", "up", "ifconfig", "xdp obj"} -> {"link add"}
      [] c \in {"ns up", "ns ifconfig"} -> {"netns add", "link set netns"}
      [] c = "ns lo up" -> {"netns add"}
      [] c = "ns route" -> {"ns up", "ns ifconfig"}
      [] c = "filter add" -> {"qdisc add"}
      [] OTHER -> {}
Once == {"netns add", "link add", "link set netns", "ns route"}

(* add_qdisc joins the interface and "clsact" without a blank: tc is given *)
(* the name veth1clsact, which no interface has, and no kind of qdisc.     *)
Accepted(cmd) ==
    /\ \A c \in Needs(cmd.c) : Cmd(c, cmd.i) \in done
    /\ cmd.c \in Once => cmd \notin done
    /\ cmd.c # "qdisc add"

Init ==
    /\ hooks = {} /\ status = "idle" /\ todo = <<>>
    /\ done = {} /\ runs = 0 /\ boots = 1

(* A run is started; without a program, or without the name of a section,  *)
(* it ends at once.  That a command it needs is missing is only printed.   *)
Start(hs) ==
    /\ status # "running" /\ runs < MaxRuns
    /\ hooks' = hs
    /\ IF hs = {} THEN status' = "rejected" /\ todo' = <<>>
                  ELSE status' = "running" /\ todo' = Script(hs)
    /\ runs' = runs + 1
    /\ UNCHANGED <<done, boots>>

RunCmd_Ignored ==
    /\ status = "running" /\ todo # <<>>
    /\ done' = IF Accepted(Head(todo)) THEN done \cup {Head(todo)} ELSE done
    /\ todo' = Tail(todo)
    /\ status' = IF Tail(todo) = <<>> THEN "ok" ELSE "running"
    /\ UNCHANGED <<hooks, runs, boots>>
RunCmd ==
    /\ status = "running" /\ todo # <<>>
    /\ \/ /\ Accepted(Head(todo))
          /\ done' = done \cup {Head(todo)}
          /\ todo' = Tail(todo)
          /\ status' = IF Tail(todo) = <<>> THEN "ok" ELSE "running"
       \/ /\ Faulty \/ ~Accepted(Head(todo))
          /\ status' = "failed"
          /\ UNCHANGED <<done, todo>>
    /\ UNCHANGED <<hooks, runs, boots>>

(* Namespaces, interfaces and attached programs do not survive a reboot. *)
Reboot ==
    /\ status # "running" /\ boots < MaxRuns
    /\ done' = {} /\ runs' = 0 /\ boots' = boots + 1
    /\ status' = "idle" /\ todo' = <<>>
    /\ UNCHANGED hooks

Next == (\E hs \in SUBSET Hooks : Start(hs)) \/ RunCmd \/ Reboot
Spec == Init /\ [][Next]_vars
-----------------------------------------------------------------------------
(* Type correctness. *)
TypeOK ==
    /\ hooks \subseteq Hooks
    /\ status \in {"idle", "running", "ok", "failed", "rejected"}
    /\ todo \in Seq(Commands) /\ done \subseteq Commands
    /\ runs \in Nat /\ boots \in Nat

Attached == {h \in Hooks : Cmd(IF h = "xdp" THEN "xdp obj" ELSE "filter add", 1) \in done}
Configured(i) == \A k \in 1 .. Len(Setup) : Cmd(Setup[k], i) \in done

(* A run that ends normally is evidence: the programs it was given are     *)
(* attached, to an interface whose whole path, and its peer's, is set up.  *)
OkMeansAttached ==
    status = "ok" => hooks \subseteq Attached /\ \A i \in Peers : Configured(i)

(* Programs are attached only to interfaces that are completely set up: a  *)
(* run that fails on the way leaves none attached.                         *)
AttachedLast == Attached # {} => \A i \in Peers : Configured(i)

(* "To check if the extracted code successfully loads at the appropriate   *)
(* hookpoint, use the verify_extraction.py script": on a freshly booted    *)
(* machine on which commands do not fail, a run ends with the program      *)
(* attached at each hook point asked for.                                  *)
FirstRunAttaches ==
    status \in {"ok", "failed"} /\ runs = 1 => hooks \subseteq Attached
=============================================================================
