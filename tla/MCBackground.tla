---------------------------- MODULE MCBackground ----------------------------
(***************************************************************************)
(* The two parts with a thread of their own, as one instance for TLC: the  *)
(* batch processor and the periodic reader.  They share no state, so a     *)
(* behaviour is one of either, chosen at the start; the other is at rest.  *)
(***************************************************************************)
EXTENDS BatchProcessor, PeriodicReader

VARIABLE focus   \* the component this behaviour is about

backgroundVars == <<focus, vars, readerVars>>

BackgroundInit ==
    /\ focus \in {"batch", "reader"}
    /\ Init /\ ReaderInit

BackgroundNext ==
    /\ UNCHANGED focus
    /\ IF focus = "batch" THEN Next ELSE UNCHANGED vars
    /\ IF focus = "reader" THEN ReaderNext ELSE UNCHANGED readerVars

(* The fairness of each component (FairSpec and ReaderFairness), in the     *)
(* behaviours that are about it.                                            *)
BatchKeepsGoing ==
    /\ WF_vars(focus = "batch" /\ Worker)
    /\ \A e \in Emitters : WF_vars(focus = "batch" /\ FinishSpan(e))
    /\ \A c \in Controllers : WF_vars(focus = "batch" /\ FinishCall(c))
ReaderKeepsGoing ==
    /\ WF_readerVars(focus = "reader" /\ ReaderThread)
    /\ \A u \in MetricUsers : WF_readerVars(focus = "reader" /\ UserWaits(u))

BackgroundSpec ==
    /\ BackgroundInit /\ [][BackgroundNext]_backgroundVars
    /\ BatchKeepsGoing /\ ReaderKeepsGoing
=============================================================================
