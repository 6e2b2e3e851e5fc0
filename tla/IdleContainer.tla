--------------------------- MODULE IdleContainer ---------------------------
(***************************************************************************)
(* What an idle container promises (internal/idle/idle.go): a line of      *)
(* elements, each with the date it was last active.  Pop takes the first.  *)
(* A first-in-first-out container keeps the order of arrival; the others   *)
(* keep the line sorted by date and may rearrange elements of equal date.  *)
(***************************************************************************)
EXTENDS Integers, Sequences, SequencesExt

CONSTANTS Worker, Time, Nil

VARIABLES line, fifo, out

\* Line q holds what s holds, in the order the container keeps.
Arranged(q, s) ==
    IF fifo
    THEN q = s
    ELSE /\ Len(q) = Len(s) /\ ToSet(q) = ToSet(s)
         /\ \A i \in 2 .. Len(q) : q[i - 1].at <= q[i].at

Init == line = <<>> /\ fifo \in BOOLEAN /\ out = <<"none">>

Add(e) ==
    /\ out' = <<"none">>
    /\ Arranged(line', Append(line, e))

Pop ==
    \/ line = <<>> /\ out' = <<"Popped", Nil>> /\ UNCHANGED line
    \/ /\ line # <<>>
       /\ out' = <<"Popped", Head(line)>>
       /\ Arranged(line', Tail(line))

\* Every element dated at the cutoff or before goes, and no other.
RemoveExpired(cutoff) ==
    LET rest == SelectSeq(line, LAMBDA e : e.at > cutoff)
    IN  /\ out' = <<"Removed", Len(line) - Len(rest)>>
        /\ Arranged(line', rest)

Length == out' = <<"Len", Len(line)>> /\ UNCHANGED line

Next ==
    /\ \/ \E e \in [w : Worker, at : Time] : Add(e)
       \/ Pop
       \/ \E cutoff \in Time : RemoveExpired(cutoff)
       \/ Length
    /\ UNCHANGED fifo

Spec == Init /\ [][Next]_<<line, fifo, out>>
=============================================================================
