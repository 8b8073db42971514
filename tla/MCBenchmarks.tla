---------------------------- MODULE MCBenchmarks ----------------------------
(***************************************************************************)
(* What the driver measures: the plug-ins it calls, and the library they   *)
(* call in turn.  One of the two is used at a time, the other stays as it  *)
(* was at first; the plug-ins see a library call as one step.              *)
(***************************************************************************)
EXTENDS MCPlugins, MCLibrary

VARIABLE uses   \* "plug-ins" or "library"

plugins == <<running, hash, aes, table>>
library == <<algorithm, vars, ctr, ofb, sha2, md5, sha1>>

BenchmarksInit ==
  /\ uses \in {"plug-ins", "library"}
  /\ IF uses = "library"
     THEN running = "hash" /\ variation = 0 /\ aes_variation = 0
     ELSE /\ algorithm = "cbc"
          /\ LET first == CHOOSE iv \in IVs : TRUE
             IN  IV = first /\ ctr_IV = first /\ ofb_IV = first
  /\ PluginsInit /\ LibraryInit

BenchmarksNext ==
  \/ uses = "plug-ins" /\ PluginsNext /\ UNCHANGED <<uses, library>>
  \/ uses = "library" /\ LibraryNext /\ UNCHANGED <<uses, plugins>>

(* The fairness is that of LibrarySpec.                                    *)
BenchmarksSpec ==
  /\ BenchmarksInit
  /\ [][BenchmarksNext]_<<uses, plugins, library>>
  /\ WF_sha2(H!TakeBlock \/ H!TakeBytes)
  /\ WF_sha1(S!PadByte \/ S!FinaliseEnds)
=============================================================================
