-------------------------------- MODULE MCFs --------------------------------
(***************************************************************************)
(* A TLC instance of Fs: two processes, a directory and two names.         *)
(***************************************************************************)
EXTENDS Fs

MCPaths == {<<"a">>, <<"b">>, <<"b", "a">>}
MCFilePaths == {<<"a">>, <<"b", "a">>}
MCDirPaths == {<<"b">>}
MCOpenPaths == {<<"a">>}

MCSeeks == {<<0, "set">>}

ReadWrite == {"rdwd"}
MCOpenFlags == {{}, ReadWrite, ReadWrite \cup {"creat"}}

\* The bounds that the proofs assume hold in this instance.
ASSUME InstanceWithinBounds == WithinBounds
=============================================================================
