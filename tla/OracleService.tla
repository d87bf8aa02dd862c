---------------------------- MODULE OracleService ----------------------------
(***************************************************************************)
(* What the preimage channel promises the emulator, without pipes, bytes   *)
(* or threads (crates/mipsevm/src/traits.rs, PreimageOracle): a hint is    *)
(* handled once, inside its own call; a preimage asked for is the one      *)
(* returned; a call fails only when the server is gone.  PreimageChannel   *)
(* is shown to implement this specification.                               *)
(***************************************************************************)
EXTENDS Integers, Sequences

CONSTANTS
    Hints,      \* the hints the emulator may send
    Preimage    \* the preimage of every key

VARIABLES
    call,       \* the call in progress: [op, arg]
    served,     \* the handler was called for the hint in progress
    handled,    \* the hints given to the handler, in order
    answer,     \* the key and the preimage of the last answer
    up          \* the server is there

serviceVars == <<call, served, handled, answer, up>>

NoneCalled == [op |-> "none", arg |-> "none"]

ServiceInit ==
    /\ call = NoneCalled
    /\ served = FALSE
    /\ handled = << >>
    /\ answer = [key |-> "none", value |-> << >>]
    /\ up = TRUE

CallHint(h) ==
    /\ call = NoneCalled
    /\ call' = [op |-> "hint", arg |-> h]
    /\ served' = FALSE
    /\ UNCHANGED <<handled, answer, up>>

Handle ==
    /\ up /\ call.op = "hint" /\ ~ served
    /\ served' = TRUE
    /\ handled' = Append(handled, call.arg)
    /\ UNCHANGED <<call, answer, up>>

ReturnHint ==
    /\ call.op = "hint" /\ served
    /\ call' = NoneCalled
    /\ served' = FALSE
    /\ UNCHANGED <<handled, answer, up>>

CallGet(k) ==
    /\ call = NoneCalled
    /\ call' = [op |-> "get", arg |-> k]
    /\ UNCHANGED <<served, handled, answer, up>>

(* The answer may still come when the server is gone.                      *)
ReturnGet ==
    /\ call.op = "get"
    /\ call' = NoneCalled
    /\ answer' = [key |-> call.arg, value |-> Preimage[call.arg]]
    /\ UNCHANGED <<served, handled, up>>

FailCall ==
    /\ ~ up /\ call.op \in {"hint", "get"}
    /\ call' = [call EXCEPT !.op = "failed"]
    /\ served' = FALSE
    /\ UNCHANGED <<handled, answer, up>>

ServiceClose ==
    /\ call.op \in {"none", "failed"}
    /\ call' = [call EXCEPT !.op = "closed"]
    /\ UNCHANGED <<served, handled, answer, up>>

ServiceExit ==
    /\ up
    /\ up' = FALSE
    /\ UNCHANGED <<call, served, handled, answer>>

ServiceNext ==
    \/ \E h \in Hints : CallHint(h)
    \/ Handle
    \/ ReturnHint
    \/ \E k \in DOMAIN Preimage : CallGet(k)
    \/ ReturnGet
    \/ FailCall
    \/ ServiceClose
    \/ ServiceExit

ServiceSpec == ServiceInit /\ [][ServiceNext]_serviceVars
=============================================================================
