---------------------------- MODULE GaplessReader ----------------------------
(***************************************************************************)
(* What a reader of the realtime stream is promised: it follows the        *)
(* published sequence without skipping a message, and its position goes    *)
(* back only when it rereads the authoritative objects, which stand for    *)
(* everything published before the read.  RealtimeCursor implements it.    *)
(***************************************************************************)
EXTENDS Integers

VARIABLES
  published,  \* how many messages have been published
  position,   \* the reader has dealt with the messages up to this one
  covered,    \* the messages received, or published before a reread
  snapshot    \* the sequence a reread under way stands for, or NoSnapshot

readerVars == <<published, position, covered, snapshot>>

NoSnapshot == -1

Init == published = 0 /\ position = 0 /\ covered = {} /\ snapshot = NoSnapshot

Publish == published' = published + 1 /\ UNCHANGED <<position, covered, snapshot>>

Advance ==
  \E next \in (position + 1)..published :
    /\ position' = next
    /\ covered' = covered \cup (position + 1)..next
    /\ UNCHANGED <<published, snapshot>>

BeginReread ==
  /\ snapshot = NoSnapshot
  /\ snapshot' \in 0..published
  /\ UNCHANGED <<published, position, covered>>

EndReread ==
  /\ snapshot # NoSnapshot
  /\ position' = snapshot
  /\ covered' = covered \cup 1..snapshot
  /\ snapshot' = NoSnapshot
  /\ UNCHANGED published

Next == Publish \/ Advance \/ BeginReread \/ EndReread

Spec == Init /\ [][Next]_readerVars
=============================================================================
