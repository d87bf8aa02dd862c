----------------------------- MODULE HintBuffer -----------------------------
(***************************************************************************)
(* crates/mipsevm/src/mips/mips_vm.rs, handle_syscall: writes of the guest *)
(* to the hint descriptor.  Every write is appended to state.last_hint,    *)
(* and hints with a length prefix are cut off its front and given to the   *)
(* preimage oracle, one call of the oracle per turn of the loop.           *)
(*                                                                         *)
(* The guest has a stream of hints to send: hint h is PREFIX + Size[h]     *)
(* bytes, and byte <<h, i>> is its i-th.  The buffer is part of the State, *)
(* so that snapshots keep it; a resumed run has a server of its own, which *)
(* knows nothing of the hints the one before was given.                    *)
(***************************************************************************)
EXTENDS Integers, Sequences, FiniteSets, SequencesExt

CONSTANTS
    PREFIX,    \* bytes of a length prefix: 4
    Size,      \* the payload sizes of the hints of the stream
    Chunking   \* how the guest cuts the stream into writes: "hints" or "any"

ASSUME HintAssumption ==
    /\ PREFIX \in Nat \ {0}
    /\ Size \in Seq(Nat)
    /\ Chunking \in {"hints", "any"}

VARIABLES
    unsent,     \* the bytes the guest has not written yet
    last_hint,  \* the buffer
    looping,    \* the system call is in its loop
    delivered,  \* what the server of this run was given: sequences of bytes
    status,     \* "running", "err" or "panic"
    saved,      \* the state a run can be resumed from: the input or the last snapshot
    base,       \* history: the hints the guest had written in full in that state
    handled     \* history: the hints any server was given

vars == <<unsent, last_hint, looping, delivered, status, saved, base, handled>>

Framed(h)  == [i \in 1 .. (PREFIX + Size[h]) |-> <<h, i>>]
Payload(h) == [i \in 1 .. Size[h] |-> <<h, PREFIX + i>>]
Stream     == FlattenSeq([h \in 1 .. Len(Size) |-> Framed(h)])

Init ==
    /\ unsent = Stream
    /\ last_hint = << >>
    /\ looping = FALSE
    /\ delivered = << >>
    /\ status = "running"
    /\ saved = [unsent |-> Stream, last_hint |-> << >>]
    /\ base = 0
    /\ handled = {}

(* A guest that writes hint by hint: a write ends at the end of the hint   *)
(* it is in, or leaves it with a part of its prefix.                       *)
HintByHint(n) ==
    LET first == unsent[1]
        end   == unsent[n]
    IN  /\ end[1] = first[1]
        /\ end[2] < PREFIX \/ end[2] = PREFIX + Size[end[1]]

HintWrite(n) ==
    /\ status = "running" /\ ~ looping
    /\ Chunking = "hints" => HintByHint(n)
    /\ last_hint' = last_hint \o SubSeq(unsent, 1, n)
    /\ unsent' = SubSeq(unsent, n + 1, Len(unsent))
    /\ looping' = TRUE
    /\ UNCHANGED <<delivered, status, saved, base, handled>>

(* The length in the prefix at the front of the buffer.                    *)
HintLen == Size[last_hint[1][1]]

(* Fault: a part of a prefix is taken for a prefix.                        *)
CutsEarly == last_hint # << >> /\ HintLen >= Len(last_hint) - PREFIX

(* The loop condition, and the condition under which a hint is cut off.    *)
Cuts == Len(last_hint) >= PREFIX /\ HintLen >= Len(last_hint) - PREFIX

(* Fault: an error of the oracle is ignored.                               *)
SliceUnchecked ==
    IF PREFIX + HintLen > Len(last_hint)
    THEN status' = "panic" /\ UNCHANGED <<last_hint, looping, delivered, handled>>
    ELSE /\ \/ /\ delivered' = Append(delivered, SubSeq(last_hint, PREFIX + 1, PREFIX + HintLen))
               /\ handled' = handled \cup {last_hint[1][1]}
            \/ UNCHANGED <<delivered, handled>>
         /\ last_hint' = SubSeq(last_hint, PREFIX + HintLen + 1, Len(last_hint))
         /\ UNCHANGED <<looping, status>>

(* Fault: the oracle is given the prefix too.                              *)
SliceWithPrefix ==
    IF PREFIX + HintLen > Len(last_hint)
    THEN status' = "panic" /\ UNCHANGED <<last_hint, looping, delivered, handled>>
    ELSE /\ delivered' = Append(delivered, SubSeq(last_hint, 1, PREFIX + HintLen))
         /\ last_hint' = SubSeq(last_hint, PREFIX + HintLen + 1, Len(last_hint))
         /\ handled' = handled \cup {last_hint[1][1]}
         /\ UNCHANGED <<looping, status>>

(* A slice past the end of the buffer panics.                              *)
Slice ==
    IF PREFIX + HintLen > Len(last_hint)
    THEN status' = "panic" /\ UNCHANGED <<last_hint, looping, delivered, handled>>
    ELSE \/ /\ delivered' = Append(delivered, SubSeq(last_hint, PREFIX + 1, PREFIX + HintLen))
            /\ last_hint' = SubSeq(last_hint, PREFIX + HintLen + 1, Len(last_hint))
            /\ handled' = handled \cup {last_hint[1][1]}
            /\ UNCHANGED <<looping, status>>
         \/ /\ status' = "err"     \* the oracle fails
            /\ UNCHANGED <<last_hint, looping, delivered, handled>>

(* One turn of the loop.                                                   *)
Deliver ==
    /\ looping /\ status = "running"
    /\ Cuts
    /\ Slice
    /\ UNCHANGED <<unsent, saved, base>>

(* Fault: the loop waits for the buffer to be empty.                       *)
ReturnDrained ==
    /\ looping /\ status = "running"
    /\ last_hint = << >>
    /\ looping' = FALSE
    /\ UNCHANGED <<unsent, last_hint, delivered, status, saved, base, handled>>

Return ==
    /\ looping /\ status = "running"
    /\ ~ Cuts
    /\ looping' = FALSE
    /\ UNCHANGED <<unsent, last_hint, delivered, status, saved, base, handled>>

-----------------------------------------------------------------------------
(* The kernel takes a snapshot between two steps.                          *)
Snapshot ==
    /\ status = "running" /\ ~ looping
    /\ saved' = [unsent |-> unsent, last_hint |-> last_hint]
    /\ UNCHANGED <<unsent, last_hint, looping, delivered, status, base, handled>>

(* The hints of which no byte is in a sequence of bytes to come.           *)
Before(bytes) == {h \in 1 .. Len(Size) : \A k \in DOMAIN bytes : bytes[k][1] # h}

(* The run has ended, by an error or killed in the middle of a step, and   *)
(* is resumed: the builder reads the state and starts a new server.        *)
Resume ==
    /\ unsent' = saved.unsent /\ last_hint' = saved.last_hint
    /\ looping' = FALSE /\ delivered' = << >> /\ status' = "running"
    /\ base' = Cardinality(Before(saved.unsent))
    /\ UNCHANGED <<saved, handled>>

Next ==
    \/ \E n \in 1 .. Len(unsent) : HintWrite(n)
    \/ Deliver
    \/ Return
    \/ Snapshot
    \/ Resume

(* The emulator's thread keeps running; the guest need not write.          *)
Spec == Init /\ [][Next]_vars /\ WF_vars(Deliver \/ Return)

-----------------------------------------------------------------------------
(* The hints of which the guest has written the last byte.                 *)
Complete == Before(unsent)

(* "Continue processing while there is enough data to check if there are   *)
(* any hints": when the system call returns, the server of this run has    *)
(* been given every hint written in full since the state it was resumed    *)
(* from, in order and once.                                                *)
HintsDelivered ==
    ~ looping /\ status = "running" =>
        /\ delivered = [k \in 1 .. Len(delivered) |-> Payload(base + k)]
        /\ Complete = 1 .. (base + Len(delivered))

(* Over any number of errors, kills and resumes, in the middle of a step   *)
(* too: a hint the guest has written in full was given to this server or   *)
(* to one before it.                                                       *)
NoHintLost ==
    ~ looping /\ status = "running" => Complete \subseteq handled

(* No slice reaches past the end of the buffer, and what stays in it is    *)
(* the beginning of the hint to come.                                      *)
BufferInRange ==
    /\ status # "panic"
    /\ last_hint \o unsent = SubSeq(Stream, Len(Stream) - Len(last_hint \o unsent) + 1,
                                    Len(Stream))

(* A write to the hint descriptor returns, or ends the run.                *)
WriteReturns == looping ~> (~ looping \/ status # "running")
=============================================================================
