---- MODULE MCMirror ----
(* Signing on, the string tables of a client that has signed on, and the datagrams
   too long for one packet that may carry either. *)
EXTENDS StringTable, Signon, SplitPacket

VARIABLE part   \* what is at work

TablePart == part = "table" /\ TableNext /\ UNCHANGED <<signonVars, splitVars>>
SignonPart == part = "signon" /\ SignonNext /\ UNCHANGED <<tableVars, splitVars>>
SplitPart == part = "split" /\ SplitNext /\ UNCHANGED <<tableVars, signonVars>>

MirrorInit == part \in {"table", "signon", "split"} /\ TableInit /\ SignonInit /\ SplitInit
MirrorNext == (TablePart \/ SignonPart \/ SplitPart) /\ UNCHANGED part
MirrorSpec == MirrorInit /\ [][MirrorNext]_<<part, tableVars, signonVars, splitVars>>
====
