----------------------------- MODULE WireSession -----------------------------
(***************************************************************************)
(* The connection of Wire, and the reader's calls on it. A reader's calls  *)
(* have the parts the sender's have, since both ends derive them from what *)
(* they know (n, NMul, the size of the modulus).                           *)
(***************************************************************************)
EXTENDS Wire

VARIABLES
    program,     \* the calls, the same at both ends
    written,     \* bytes that have reached the reader
    sender,      \* "open", "closed", or "reset" until a recv has said so
    read,        \* bytes recv has returned
    returns,     \* of each finished call: what it returned and got
    part,        \* the part the reader is in
    bytes_read,  \* recv_in's count, an unsigned int
    got,         \* the parts of this call that arrived
    chunk_total, step_total, total

vars == <<program, written, sender, read, returns, part, bytes_read, got,
          chunk_total, step_total, total>>

Ended == Len(returns) = Len(program)
Call == program[Len(returns) + 1]

ByteLen(parts) == FoldLeft(LAMBDA v, p : v + Len(p.bytes), 0, parts)
Stream == FlattenSeq([c \in DOMAIN program |->
              FlattenSeq([p \in DOMAIN Parts(program[c]) |-> Parts(program[c])[p].bytes])])

Init ==
    /\ program \in Programs
    /\ written = 0 /\ sender = "open"
    /\ read = 0
    /\ returns = <<>>
    /\ part = 1 /\ bytes_read = 0 /\ got = <<>>
    /\ chunk_total = 0 /\ step_total = 0 /\ total = 0
-----------------------------------------------------------------------------
Deliver ==
    /\ sender = "open" /\ written < Len(Stream)
    /\ written' = written + 1
    /\ UNCHANGED <<program, sender, read, returns, part, bytes_read, got,
                   chunk_total, step_total, total>>

Exit ==
    /\ sender = "open"
    /\ sender' \in {"closed", "reset"}
    /\ UNCHANGED <<program, written, read, returns, part, bytes_read, got,
                   chunk_total, step_total, total>>
-----------------------------------------------------------------------------
(* A recv_in that returned ret is followed by the next part of its chunk, or *)
(* when that has failed or is over by what adds up the results.              *)

SameStep(parts, n) == n <= Len(parts) /\ parts[n].step = parts[part].step
SameChunk(parts, n) == SameStep(parts, n) /\ parts[n].chunk = parts[part].chunk
NextPart(parts, ret) ==
    IF ret > 0 THEN part + 1
    ELSE CHOOSE n \in part + 1 .. Len(parts) + 1 :
            ~SameChunk(parts, n) /\ \A m \in part + 1 .. n - 1 : SameChunk(parts, m)

EndPart(ret, arrived) ==
    LET parts == Parts(Call)
        next  == NextPart(parts, ret)
        chunk == IF ret > 0 THEN chunk_total + ret ELSE ret
        step  == step_total + chunk
        goes_on == SameStep(parts, next) \/ (next <= Len(parts) /\ step > 0)
    IN /\ bytes_read' = 0
       /\ chunk_total' = IF SameChunk(parts, next) THEN chunk ELSE 0
       /\ step_total' = CASE SameChunk(parts, next) -> step_total
                          [] SameStep(parts, next) /\ ~SameChunk(parts, next) -> step
                          [] OTHER -> 0
       /\ total' = IF ~goes_on THEN 0
                   ELSE IF SameStep(parts, next) THEN total ELSE total + step
       /\ part' = IF goes_on THEN next ELSE 1
       /\ got' = IF goes_on THEN arrived ELSE <<>>
       /\ returns' = IF goes_on THEN returns
                     ELSE Append(returns, [ret |-> IF step > 0 THEN total + step ELSE step,
                                           got |-> arrived])

Want == Len(Parts(Call)[part].bytes) - bytes_read
Arrived == written - read

\* recv hands over some of what is there; recv_in asks for the rest, or is done.
RecvSome ==
    /\ ~Ended /\ Want > 0
    /\ \E n \in 1 .. Arrived :
         /\ n <= Want
         /\ read' = read + n
         /\ IF n < Want
            THEN /\ bytes_read' = bytes_read + n
                 /\ UNCHANGED <<returns, part, got, chunk_total, step_total, total>>
            ELSE EndPart(bytes_read + n,
                         Append(got, SubSeq(Stream, read' - bytes_read - n + 1, read')))
    /\ UNCHANGED <<program, written, sender>>

\* Nothing was asked for: no recv is made and 0 returned.
RecvNothing ==
    /\ ~Ended /\ Want = 0
    /\ EndPart(0, Append(got, <<>>))
    /\ UNCHANGED <<program, written, sender, read>>

\* recv returns 0 at the end of the stream, and so does recv_in, whatever it
\* had read before.
RecvEofPartial ==
    /\ ~Ended /\ Want > 0
    /\ sender = "closed" /\ Arrived = 0
    /\ EndPart(bytes_read, got)
    /\ UNCHANGED <<program, written, sender, read>>
RecvEofEarly ==
    /\ ~Ended /\ Want > 0
    /\ Arrived = 0
    /\ EndPart(0, got)
    /\ UNCHANGED <<program, written, sender, read>>
RecvEofLoops ==
    /\ ~Ended /\ Want > 0
    /\ sender = "closed" /\ Arrived = 0
    /\ UNCHANGED vars
RecvEof ==
    /\ ~Ended /\ Want > 0
    /\ sender = "closed" /\ Arrived = 0
    /\ EndPart(0, got)
    /\ UNCHANGED <<program, written, sender, read>>

\* recv returns -1, once. In the unsigned tmp that is the greatest number: not
\* <= 0, so it is added, and takes one off a count that is not 0. From 0 it
\* makes a count beyond any length, which ends the loop and reads -1 as an int.
RecvError ==
    /\ ~Ended /\ Want > 0
    /\ sender = "reset" /\ Arrived = 0
    /\ sender' = "closed"
    /\ IF bytes_read = 0 THEN EndPart(-1, got)
       ELSE /\ bytes_read' = bytes_read - 1
            /\ UNCHANGED <<returns, part, got, chunk_total, step_total, total>>
    /\ UNCHANGED <<program, written, read>>

Reader == RecvSome \/ RecvNothing \/ RecvEof \/ RecvError
Next == Deliver \/ Exit \/ Reader
Spec == Init /\ [][Next]_vars

\* What was sent arrives while the sender lives; the reader runs.
FairSpec == Spec /\ WF_vars(Deliver) /\ WF_vars(Reader)
-----------------------------------------------------------------------------
(* Properties. *)

Whole(c) == ByteLen(Parts(program[c]))
Complete(c) == Whole(c) > 0 /\ returns[c].ret = Whole(c)

\* A call that returns the number of bytes its counterpart sent has what its
\* counterpart was given, however the bytes came in and wherever the batch was
\* cut: a size modulo what a uint32_t holds, everything else unchanged.
Sent(c) ==
    IF program[c].kind = "size" THEN program[c].data % 2 ^ (ByteBits * IntBytes)
    ELSE program[c].data
RoundTrip ==
    \A c \in DOMAIN returns : Complete(c) => Received(program[c], returns[c].got) = Sent(c)

\* A batch within its maximum is read whole or the call returns 0 or -1: its
\* callers, who look for <= 0 if at all, take no partial batch for one that
\* came. (Over the maximum a failure is added to what came before it.)
Cut(c) == \E p \in DOMAIN Parts(program[c]) : Parts(program[c])[p].chunk > 1
WholeOrFailure ==
    \A c \in DOMAIN returns :
        ~Cut(c) /\ ~Complete(c) => returns[c].ret \in {0, -1}

\* Once a call failed, nothing is read any more: a reader that goes on after a
\* failure it did not look at never takes one message for another.
EndIsFinal ==
    \A c, d \in DOMAIN returns :
        c < d /\ Whole(c) > 0 /\ ~Complete(c) => returns[d].ret <= 0

\* Every call returns, whenever and however the sender goes.
CallsReturn == <>Ended
=============================================================================
