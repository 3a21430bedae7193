--------------------------- MODULE OrderedMirror ---------------------------
(***************************************************************************)
(* What the mirror of one source promises: the records staged for it form  *)
(* a log that only grows, and the remote side applies longer and longer    *)
(* prefixes of it.                                                         *)
(***************************************************************************)
EXTENDS Naturals, Sequences

CONSTANT Entries

VARIABLES log, applied

mirrorVars == <<log, applied>>

IsPrefixOf(s, t) == Len(s) <= Len(t) /\ s = SubSeq(t, 1, Len(s))

MirrorInit == log = <<>> /\ applied = <<>>

StageEntries ==
    /\ log' \in Seq(Entries)
    /\ IsPrefixOf(log, log')
    /\ UNCHANGED applied

ApplyEntries ==
    /\ IsPrefixOf(applied, applied')
    /\ IsPrefixOf(applied', log)
    /\ UNCHANGED log

MirrorNext == StageEntries \/ ApplyEntries

MirrorSpec == MirrorInit /\ [][MirrorNext]_mirrorVars
=============================================================================
