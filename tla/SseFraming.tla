------------------------------- MODULE SseFraming -------------------------------
(***************************************************************************)
(* src/sse.rs: where an event ends in a buffer of bytes.  The loop that    *)
(* drains the buffer is the provider crates', the way the comments on      *)
(* find_event_boundary and strip_boundary_prefix ask for it.               *)
(***************************************************************************)
EXTENDS Naturals, Sequences, SequencesExt

CrLf == <<"\r", "\n", "\r", "\n">>
Lf == <<"\n", "\n">>

Found(boundary, buf) ==
    {i \in 0..Len(buf) : i + Len(boundary) <= Len(buf)
                         /\ SubSeq(buf, i + 1, i + Len(boundary)) = boundary}

First(positions) == {i \in positions : \A j \in positions : i <= j}

(* find_event_boundary, an Option: CRLF anywhere comes before LF.          *)
FindEventBoundary(buf) ==
    IF Found(CrLf, buf) # {} THEN First(Found(CrLf, buf)) ELSE First(Found(Lf, buf))

(* strip_boundary_prefix: how many bytes it takes off.                     *)
StripBoundaryPrefix(buf) ==
    IF 0 \in Found(CrLf, buf) THEN 4 ELSE IF 0 \in Found(Lf, buf) THEN 2 ELSE 0

(* One turn of the caller's loop.                                          *)
NextEvent(state) ==
    LET end == FindEventBoundary(state.buf)
    IN  IF end = {} THEN state
        ELSE LET i == CHOOSE i \in end : TRUE
                 rest == SubSeq(state.buf, i + 1, Len(state.buf))
             IN  [events |-> Append(state.events, SubSeq(state.buf, 1, i)),
                  buf |-> SubSeq(rest, StripBoundaryPrefix(rest) + 1, Len(rest))]

(* A chunk arrives: all that is whole is taken out.                        *)
Arrives(state, chunk) ==
    LET filled == [state EXCEPT !.buf = @ \o chunk]
    IN  FoldLeft(LAMBDA s, byte : NextEvent(s), filled, filled.buf)

ParseChunks(chunks) == FoldLeft(Arrives, [events |-> <<>>, buf |-> <<>>], chunks)

(* What a server sends for some events.                                    *)
Wire(payloads, boundary) == FlattenSeq([i \in DOMAIN payloads |-> payloads[i] \o boundary])

=============================================================================
