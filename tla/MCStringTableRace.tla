---- MODULE MCStringTableRace ----
EXTENDS StringTable
====
