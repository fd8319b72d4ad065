------------------------------ MODULE MCHelpers -----------------------------
(* The modules with few states for TLC, one at a time: job says which one  *)
(* a behaviour is about, the others stay idle.                             *)
EXTENDS MapFile, Copy, Search, Split, Replace, Etc, MemReg

VARIABLE job

Init ==
  /\ job \in {"map", "copy", "search", "split", "replace", "etc", "reg"}
  /\ MapInit /\ CopyInit /\ SearchInit /\ SplitInit /\ ReplaceInit /\ EtcInit /\ RegInit
  /\ job # "map"  => /\ fileSize = [x \in Files |-> 0]
                     /\ m_strPath = [o \in Objs |-> CHOOSE x \in Files : TRUE]
  /\ job # "copy" => dir["b"] = None /\ size = 0 /\ cross

textVars == <<searchVars, splitVars, replaceVars, etcVars>>

\* A behaviour in which a Del has kept the lock may come to a stop.
Stopped == unknown /\ UNCHANGED regVars

Next ==
  /\ UNCHANGED job
  /\ \/ job = "map" /\ MapNext /\ UNCHANGED <<copyVars, textVars, regVars>>
     \/ job = "copy" /\ CopyNext /\ UNCHANGED <<mapVars, textVars, regVars>>
     \/ job = "reg" /\ (RegNext \/ Stopped) /\ UNCHANGED <<mapVars, copyVars, textVars>>
     \/ /\ UNCHANGED <<mapVars, copyVars, regVars>>
        /\ \/ job = "search" /\ SearchNext /\ UNCHANGED <<splitVars, replaceVars, etcVars>>
           \/ job = "split" /\ SplitNext /\ UNCHANGED <<searchVars, replaceVars, etcVars>>
           \/ job = "replace" /\ ReplaceNext /\ UNCHANGED <<searchVars, splitVars, etcVars>>
           \/ job = "etc" /\ EtcNext /\ UNCHANGED <<searchVars, splitVars, replaceVars>>

vars == <<job, mapVars, copyVars, textVars, regVars>>

\* The fairness of CopySpec and of EtcSpec.
Spec == Init /\ [][Next]_vars /\ WF_copyVars(CopyStep) /\ WF_etcVars(AnalyseText)
=============================================================================
