------------------------------ MODULE MCExecute ------------------------------
(***************************************************************************)
(* Two processes, only one of which has zstandard installed.  The          *)
(* namespaces are "n" and the one that shadow runs over "n" use as well.   *)
(***************************************************************************)
EXTENDS Execute

CONSTANTS t1, t2

MCThread == {t1, t2}
MCLibrary == [t \in MCThread |-> IF t = t1 THEN "zstd" ELSE "zlib"]
MCNamespace == {"n", "shadow-n"}
MCShadowOf(n) == IF n = "n" THEN "shadow-n" ELSE "shadow-shadow-n"
MCChunk == {"a", "b"}
MCKey == [namespace : {"n", "shadow-n", "shadow-shadow-n"}, chunk : MCChunk]

Submit(mode, namespace, chunks, compress) ==
  [mode |-> mode, namespace |-> namespace, chunks |-> chunks, compress |-> compress,
   adapter |-> mode # "enforce", approvalMissing |-> FALSE]

(* Requests that reach each step of the executor; most share a chunk.      *)
MCRequest == {
  Submit("enforce", "n", <<"a", "b">>, TRUE),
  Submit("enforce", "shadow-n", <<"a", "a">>, FALSE),
  Submit("enforce", "shadow-n", <<"a", "b">>, TRUE),
  Submit("shadow", "n", <<"a">>, TRUE),
  Submit("shadow", "n", <<"a", "a">>, FALSE),
  Submit("observe", "n", <<"b">>, TRUE),
  [Submit("enforce", "n", <<"a">>, TRUE) EXCEPT !.approvalMissing = TRUE] }
=============================================================================
