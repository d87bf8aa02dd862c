--------------------------- MODULE PreimageChannel ---------------------------
(***************************************************************************)
(* crates/preimage: the protocol between the emulator and the preimage     *)
(* server over two bidirectional channels, each a pair of pipes.           *)
(*                                                                         *)
(* The client is the emulator's thread: HintWriter::hint sends a length    *)
(* prefixed hint and waits for one byte; OracleClient::get sends a key and *)
(* reads a length prefixed value.  The server process runs one loop around *)
(* HintReader::next_hint and one around OracleServer::new_preimage_request.*)
(*                                                                         *)
(* Bytes are tokens: <<x, i>> is the i-th byte of the message about x.     *)
(***************************************************************************)
EXTENDS Integers, Sequences, FiniteSets, FiniteSetsExt

CONSTANTS
    Hints,          \* the hints the client may send
    Keys,           \* the preimage keys the client may ask for
    Size,           \* payload bytes of a hint, or of the preimage of a key
    HeaderSize,     \* bytes of a length prefix (4 for hints, 8 for preimages)
    KeySize,        \* bytes of a key
    Capacity,       \* bytes a pipe holds
    HoldServerEnds, \* the kernel keeps the server's pipe ends open (ChildWithFds)
    MaxOps          \* bound on the hints the client sends

ASSUME ChannelAssumption ==
    /\ Hints \cap Keys = {}
    /\ Size \in [Hints \cup Keys -> Nat]
    /\ HeaderSize \in Nat \ {0} /\ KeySize \in Nat \ {0}
    /\ Capacity \in Nat /\ Capacity >= HeaderSize /\ Capacity >= KeySize
    /\ HoldServerEnds \in BOOLEAN
    /\ MaxOps \in Nat

VARIABLES
    client,    \* [pc, arg, todo, got]: the call in progress
    hs,        \* [pc, got]: the loop around next_hint
    ps,        \* [pc, got, todo]: the loop around new_preimage_request
    pipe,      \* the bytes in each of the four pipes
    serverUp,  \* the server process is running
    sent,      \* history: the hints sent, in order
    returned,  \* history: how many calls of hint() returned without error
    routed,    \* history: the hints given to the hint handler, in order
    answer,    \* history: key and bytes of the get() that returned last
    torn,      \* history: next_hint took part of a length prefix for the end of the stream
    unanswered \* history: the getter failed on the key of the get() made last

vars == <<client, hs, ps, pipe, serverUp, sent, returned, routed, answer, torn, unanswered>>

Message(x, n) == [i \in 1 .. n |-> <<x, i>>]
Payload(x)    == [i \in 1 .. Size[x] |-> <<x, HeaderSize + i>>]
Subject(got)  == got[1][1]

(* The client's calls and the server's requests in progress.               *)
Idle == [pc |-> "idle", arg |-> "none", todo |-> << >>, got |-> << >>]
HsReady == [pc |-> "length", got |-> << >>]
PsReady == [pc |-> "key", got |-> << >>, todo |-> << >>]

ClientOpen == client.pc # "closed"
(* Fault: the pipe ends of the server are never closed.                    *)
ServerOpenHeld == serverUp \/ ClientOpen

ServerOpen == serverUp \/ (HoldServerEnds /\ ClientOpen)

Init ==
    /\ client = Idle
    /\ hs = HsReady
    /\ ps = PsReady
    /\ pipe = [p \in {"hint", "ack", "key", "value"} |-> << >>]
    /\ serverUp = TRUE
    /\ sent = << >> /\ returned = 0 /\ routed = << >>
    /\ answer = [key |-> "none", value |-> << >>]
    /\ torn = FALSE
    /\ unanswered = FALSE

-----------------------------------------------------------------------------
(* Blocking pipes: a write copies as many bytes as there is room for and   *)
(* waits for room for the rest, a read waits until the pipe is not empty.  *)

Room(p) == Capacity - Len(pipe[p])

(* Fault: a message is written byte by byte.                               *)
PushedByteByByte(p, todo) == Min({Len(todo), Room(p), 1})

Pushed(p, todo) == Min({Len(todo), Room(p)})

Push(p, todo) ==
    pipe' = [pipe EXCEPT ![p] = @ \o SubSeq(todo, 1, Pushed(p, todo))]

Rest(p, todo) == SubSeq(todo, Pushed(p, todo) + 1, Len(todo))

(* What one read into a buffer of n bytes takes out of pipe p.             *)
Taken(p, n) == SubSeq(pipe[p], 1, Min({n, Len(pipe[p])}))

Take(p, n) ==
    pipe' = [pipe EXCEPT ![p] = SubSeq(@, Min({n, Len(@)}) + 1, Len(@))]

-----------------------------------------------------------------------------
(* HintWriter::hint                                                        *)

Fail ==
    /\ client' = [client EXCEPT !.pc = "failed"]
    /\ UNCHANGED <<pipe, returned, answer>>

Hint(h) ==
    /\ client.pc = "idle"
    /\ Len(sent) < MaxOps
    /\ client' = [pc |-> "hint_write", arg |-> h, got |-> << >>,
                  todo |-> Message(h, HeaderSize + Size[h])]
    /\ sent' = Append(sent, h)
    /\ UNCHANGED <<hs, ps, pipe, serverUp, returned, routed, answer, torn, unanswered>>

(* hint() makes one write and drops its count: on a blocking pipe it is    *)
(* over when all of the message is copied, in as many steps as the room    *)
(* takes.                                                                  *)
HintWrite ==
    /\ client.pc = "hint_write"
    /\ \/ /\ ServerOpen /\ Room("hint") > 0
          /\ Push("hint", client.todo)
          /\ LET rest == Rest("hint", client.todo)
             IN  client' = [client EXCEPT !.todo = rest,
                               !.pc = IF rest = << >> THEN "hint_ack" ELSE @]
          /\ UNCHANGED <<returned, answer>>
       \/ ~ ServerOpen /\ Fail
    /\ UNCHANGED <<hs, ps, serverUp, sent, routed, torn, unanswered>>

(* Fault: hint() does not wait for the byte.                               *)
HintAckUnawaited ==
    /\ client.pc = "hint_ack"
    /\ client' = Idle
    /\ returned' = returned + 1
    /\ UNCHANGED <<hs, ps, pipe, serverUp, sent, routed, answer, torn, unanswered>>

(* Fault: hint() gives up when the byte is not there yet.                  *)
HintAckImpatient ==
    /\ client.pc = "hint_ack"
    /\ \/ /\ pipe["ack"] # << >>
          /\ Take("ack", 1)
          /\ client' = Idle
          /\ returned' = returned + 1
          /\ UNCHANGED answer
       \/ pipe["ack"] = << >> /\ Fail
    /\ UNCHANGED <<hs, ps, serverUp, sent, routed, torn, unanswered>>

HintAck ==
    /\ client.pc = "hint_ack"
    /\ \/ /\ pipe["ack"] # << >>
          /\ Take("ack", 1)
          /\ client' = Idle
          /\ returned' = returned + 1
          /\ UNCHANGED answer
       \/ pipe["ack"] = << >> /\ ~ ServerOpen /\ Fail
    /\ UNCHANGED <<hs, ps, serverUp, sent, routed, torn, unanswered>>

-----------------------------------------------------------------------------
(* OracleClient::get                                                       *)

Get(k) ==
    /\ client.pc = "idle"
    /\ client' = [pc |-> "get_write", arg |-> k, got |-> << >>,
                  todo |-> Message(k, KeySize)]
    /\ unanswered' = FALSE
    /\ UNCHANGED <<hs, ps, pipe, serverUp, sent, returned, routed, answer, torn>>

GetWrite ==
    /\ client.pc = "get_write"
    /\ \/ /\ ServerOpen /\ Room("key") > 0
          /\ Push("key", client.todo)
          /\ LET rest == Rest("key", client.todo)
             IN  client' = [client EXCEPT !.todo = rest,
                               !.pc = IF rest = << >> THEN "get_length" ELSE @]
          /\ UNCHANGED <<returned, answer>>
       \/ ~ ServerOpen /\ Fail
    /\ UNCHANGED <<hs, ps, serverUp, sent, routed, torn, unanswered>>

GetReturn(bytes) ==
    /\ client' = Idle
    /\ answer' = [key |-> client.arg, value |-> bytes]

(* read_exact of the length, then of that many bytes.                      *)
GetLength ==
    /\ client.pc = "get_length"
    /\ \/ /\ pipe["value"] # << >>
          /\ LET got == client.got \o Taken("value", HeaderSize - Len(client.got))
             IN  \/ /\ Len(got) < HeaderSize
                    /\ client' = [client EXCEPT !.got = got]
                    /\ UNCHANGED answer
                 \/ /\ Len(got) = HeaderSize /\ Size[Subject(got)] = 0
                    /\ GetReturn(<< >>)
                 \/ /\ Len(got) = HeaderSize /\ Size[Subject(got)] > 0
                    /\ client' = [client EXCEPT !.pc = "get_payload", !.got = got]
                    /\ UNCHANGED answer
          /\ Take("value", HeaderSize - Len(client.got))
          /\ UNCHANGED returned
       \/ pipe["value"] = << >> /\ ~ ServerOpen /\ Fail
    /\ UNCHANGED <<hs, ps, serverUp, sent, routed, torn, unanswered>>

(* Fault: one read is taken for the whole payload.                         *)
GetPayloadShort ==
    LET left == HeaderSize + Size[Subject(client.got)] - Len(client.got)
        got  == client.got \o Taken("value", left)
    IN  /\ client.pc = "get_payload"
        /\ pipe["value"] # << >>
        /\ GetReturn(SubSeq(got, HeaderSize + 1, Len(got)))
        /\ Take("value", left)
        /\ UNCHANGED <<hs, ps, serverUp, sent, returned, routed, torn, unanswered>>

GetPayload ==
    LET left == HeaderSize + Size[Subject(client.got)] - Len(client.got)
        got  == client.got \o Taken("value", left)
    IN  /\ client.pc = "get_payload"
        /\ \/ /\ pipe["value"] # << >>
              /\ IF Len(got) < Len(client.got) + left
                 THEN client' = [client EXCEPT !.got = got] /\ UNCHANGED answer
                 ELSE GetReturn(SubSeq(got, HeaderSize + 1, Len(got)))
              /\ Take("value", left)
              /\ UNCHANGED returned
           \/ pipe["value"] = << >> /\ ~ ServerOpen /\ Fail
        /\ UNCHANGED <<hs, ps, serverUp, sent, routed, torn, unanswered>>

(* The kernel is dropped, and with it every pipe end it holds.             *)
Close ==
    /\ client.pc \in {"idle", "failed"}
    /\ client' = [client EXCEPT !.pc = "closed"]
    /\ UNCHANGED <<hs, ps, pipe, serverUp, sent, returned, routed, answer, torn, unanswered>>

-----------------------------------------------------------------------------
(* HintReader::next_hint, called in a loop until it reports the end of the *)
(* stream.  After an error the server may go on or give up.                *)

HsRead(p) == pipe[p] # << >> \/ ~ ClientOpen

(* Fault: a short read of the length prefix is tried again.                *)
HsLengthRetried ==
    /\ serverUp /\ hs.pc = "length"
    /\ HsRead("hint")
    /\ LET got == Taken("hint", HeaderSize)
       IN  hs' = IF Len(got) < HeaderSize
                 THEN hs
                 ELSE [pc |-> IF Size[Subject(got)] = 0 THEN "route" ELSE "payload",
                       got |-> got]
    /\ Take("hint", HeaderSize)
    /\ UNCHANGED <<client, ps, serverUp, sent, returned, routed, answer, torn, unanswered>>

(* One read of the length prefix; fewer bytes than that count as the end.  *)
HsLength ==
    /\ serverUp /\ hs.pc = "length"
    /\ HsRead("hint")
    /\ LET got == Taken("hint", HeaderSize)
       IN  /\ hs' = IF Len(got) < HeaderSize
                    THEN [pc |-> "stopped", got |-> << >>]
                    ELSE [pc |-> IF Size[Subject(got)] = 0 THEN "route" ELSE "payload",
                          got |-> got]
           /\ torn' = (torn \/ Len(got) \in 1 .. (HeaderSize - 1))
    /\ Take("hint", HeaderSize)
    /\ UNCHANGED <<client, ps, serverUp, sent, returned, routed, answer, unanswered>>

HsPayload ==
    LET left == HeaderSize + Size[Subject(hs.got)] - Len(hs.got)
        got  == hs.got \o Taken("hint", left)
    IN  /\ serverUp /\ hs.pc = "payload"
        /\ HsRead("hint")
        /\ hs' = IF pipe["hint"] = << >>
                 THEN [pc |-> "stopped", got |-> << >>]
                 ELSE [pc |-> IF Len(got) = Len(hs.got) + left THEN "route" ELSE "payload",
                       got |-> got]
        /\ Take("hint", left)
        /\ UNCHANGED <<client, ps, serverUp, sent, returned, routed, answer, torn, unanswered>>

(* The handler is called with the hint, and may fail.                      *)
HsRoute ==
    /\ serverUp /\ hs.pc = "route"
    /\ routed' = Append(routed, Subject(hs.got))
    /\ \E pc \in {"ack", "ack_error"} : hs' = [pc |-> pc, got |-> << >>]
    /\ UNCHANGED <<client, ps, pipe, serverUp, sent, returned, answer, torn, unanswered>>

(* Fault: after a failure a second byte is sent.                           *)
HsAckTwice ==
    /\ serverUp /\ hs.pc \in {"ack", "ack_error"}
    /\ ClientOpen /\ Room("ack") > 1
    /\ Push("ack", [i \in 1 .. (IF hs.pc = "ack" THEN 1 ELSE 2) |-> <<"ack", i>>])
    /\ hs' = HsReady
    /\ UNCHANGED <<client, ps, serverUp, sent, returned, routed, answer, torn, unanswered>>

(* The byte that unblocks the writer is sent whether the handler failed or *)
(* not.                                                                    *)
HsAck ==
    /\ serverUp /\ hs.pc \in {"ack", "ack_error"}
    /\ IF ClientOpen THEN Room("ack") > 0 /\ Push("ack", <<<<"ack", 1>>>>)
                     ELSE UNCHANGED pipe
    /\ \/ hs' = HsReady
       \/ (hs.pc = "ack_error" \/ ~ ClientOpen) /\ hs' = [pc |-> "stopped", got |-> << >>]
    /\ UNCHANGED <<client, ps, serverUp, sent, returned, routed, answer, torn, unanswered>>

-----------------------------------------------------------------------------
(* OracleServer::new_preimage_request, called in a loop.                   *)

PsStopped == [pc |-> "stopped", got |-> << >>, todo |-> << >>]

PsKey ==
    LET got == ps.got \o Taken("key", KeySize - Len(ps.got))
    IN  /\ serverUp /\ ps.pc = "key"
        /\ HsRead("key")
        /\ ps' = IF pipe["key"] = << >>
                 THEN PsStopped
                 ELSE [pc |-> IF Len(got) = KeySize THEN "getter" ELSE "key",
                       got |-> got, todo |-> << >>]
        /\ Take("key", KeySize - Len(ps.got))
        /\ UNCHANGED <<client, hs, serverUp, sent, returned, routed, answer, torn, unanswered>>

(* Fault: nothing is sent for an empty preimage.                           *)
PsGetterEmptySilent ==
    LET k == Subject(ps.got)
    IN  /\ serverUp /\ ps.pc = "getter"
        /\ \/ /\ ps' = IF Size[k] = 0 THEN PsReady
                       ELSE [pc |-> "reply", got |-> ps.got, todo |-> Message(k, HeaderSize)]
              /\ UNCHANGED unanswered
           \/ ps' \in {PsReady, PsStopped} /\ unanswered' = TRUE
        /\ UNCHANGED <<client, hs, pipe, serverUp, sent, returned, routed, answer, torn>>

(* The getter returns the preimage, or an error and then nothing is sent.  *)
PsGetter ==
    LET k == Subject(ps.got)
    IN  /\ serverUp /\ ps.pc = "getter"
        /\ \/ /\ ps' = [pc |-> "reply", got |-> ps.got, todo |-> Message(k, HeaderSize)]
              /\ UNCHANGED unanswered
           \/ ps' \in {PsReady, PsStopped} /\ unanswered' = TRUE
        /\ UNCHANGED <<client, hs, pipe, serverUp, sent, returned, routed, answer, torn>>

(* The length is written first, then the bytes if there are any.           *)
PsReply ==
    /\ serverUp /\ ps.pc \in {"reply", "reply_value"}
    /\ \/ /\ ClientOpen /\ Room("value") > 0
          /\ Push("value", ps.todo)
          /\ LET rest == Rest("value", ps.todo)
                 k    == Subject(ps.got)
             IN  ps' = IF rest # << >>
                       THEN [ps EXCEPT !.todo = rest]
                       ELSE IF ps.pc = "reply" /\ Size[k] > 0
                       THEN [ps EXCEPT !.pc = "reply_value", !.todo = Payload(k)]
                       ELSE PsReady
       \/ ~ ClientOpen /\ ps' = PsStopped /\ UNCHANGED pipe
    /\ UNCHANGED <<client, hs, serverUp, sent, returned, routed, answer, torn, unanswered>>

(* The server process exits or crashes, which closes its pipe ends.        *)
ServerExit ==
    /\ serverUp
    /\ serverUp' = FALSE
    /\ hs' = [pc |-> "stopped", got |-> << >>]
    /\ ps' = PsStopped
    /\ UNCHANGED <<client, pipe, sent, returned, routed, answer, torn, unanswered>>

-----------------------------------------------------------------------------
ClientStep == HintWrite \/ HintAck \/ GetWrite \/ GetLength \/ GetPayload
HintServerStep == HsLength \/ HsPayload \/ HsRoute \/ HsAck
OracleServerStep == PsKey \/ PsGetter \/ PsReply

Next ==
    \/ \E h \in Hints : Hint(h)
    \/ \E k \in Keys : Get(k)
    \/ ClientStep
    \/ Close
    \/ HintServerStep
    \/ OracleServerStep
    \/ ServerExit

(* Threads that can run do run.  Nothing obliges the client to make a call *)
(* or to close, or the server to exit.                                     *)
Spec ==
    /\ Init /\ [][Next]_vars
    /\ WF_vars(ClientStep) /\ WF_vars(HintServerStep) /\ WF_vars(OracleServerStep)

-----------------------------------------------------------------------------
(* get() returns the whole preimage of the key it asked for: bytes of an   *)
(* earlier answer are never taken for it, however the reads and writes of  *)
(* the two sides are cut up by the pipes.                                  *)
AnswerMatchesKey == answer.key # "none" => answer.value = Payload(answer.key)

(* Hints are handled in the order they were sent, each at most once, and   *)
(* when hint() returns the handler has been called with it: a preimage     *)
(* asked for after the hint can rely on it.                                *)
HintHandledFirst ==
    /\ Len(routed) <= Len(sent) /\ routed = SubSeq(sent, 1, Len(routed))
    /\ returned <= Len(routed)
    /\ client.pc = "idle" => returned = Len(sent)

(* next_hint reads the length prefix with a single read and takes a short  *)
(* read for the end of the stream.  The acknowledgement keeps that safe:   *)
(* the pipe is empty whenever a hint is written, so a prefix never comes   *)
(* in two parts.                                                           *)
NoTornPrefix == ~ torn

(* Between calls nothing is left in a pipe that the next call could take   *)
(* for its answer.                                                         *)
QuietBetweenCalls ==
    client.pc = "idle" => \A p \in DOMAIN pipe : pipe[p] = << >>

(* To its caller the channel is a service that answers calls one by one:   *)
(* whatever is in the pipes belongs to the call in progress.               *)
CallOp ==
    CASE client.pc \in {"hint_write", "hint_ack"}                 -> "hint"
      [] client.pc \in {"get_write", "get_length", "get_payload"} -> "get"
      [] client.pc = "idle"                                       -> "none"
      [] OTHER                                                    -> client.pc

Service == INSTANCE OracleService WITH
    Preimage <- [k \in Keys |-> Payload(k)],
    call     <- [op |-> CallOp, arg |-> client.arg],
    served   <- CallOp = "hint" /\ Len(routed) = Len(sent),
    handled  <- routed,
    up       <- serverUp

(* Every behaviour of the two processes and their pipes is one of the      *)
(* service: a hint is handled once and inside its call, get returns the    *)
(* preimage of its key, and no call fails while the server is there.       *)
ImplementsService == Service!ServiceSpec

Blocked == client.pc \in {"hint_write", "hint_ack", "get_write", "get_length", "get_payload"}
Healthy == serverUp /\ hs.pc # "stopped" /\ ps.pc # "stopped"

(* While the server keeps serving every call returns, a get() whose key    *)
(* the getter failed on excepted: new_preimage_request then sends nothing, *)
(* and the client waits for a length.                                      *)
CallsReturn == Blocked ~> (~ Blocked \/ ~ Healthy \/ unanswered)

(* When the client is gone the server's loops come to an end.              *)
ServerDrains == client.pc = "closed" ~> (hs.pc = "stopped" /\ ps.pc = "stopped")

(* A client blocked on a server that has exited is released with an error. *)
ExitReleasesClient == (Blocked /\ ~ serverUp) ~> ~ Blocked
=============================================================================
