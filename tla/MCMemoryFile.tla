---------------------------- MODULE MCMemoryFile ----------------------------
(***************************************************************************)
(* MemoryFile for TLC: two writers and a reader with FTS5, and a writer    *)
(* whose SQLite lacks it.                                                  *)
(***************************************************************************)
EXTENDS MemoryFile, TLC

CONSTANTS writer, other_writer, reader, plain_writer, key, old, new

MCProcs   == {writer, other_writer, reader, plain_writer}
MCCapable == {writer, other_writer, reader}
MCReaders == {reader}
MCKeys    == {key}
MCValues  == {old, new}

\* The two writers, and the two values, differ in nothing but their names.
MCSymmetry == Permutations({writer, other_writer}) \union Permutations(MCValues)
=============================================================================
