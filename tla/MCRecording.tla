----------------------------- MODULE MCRecording -----------------------------
(* One instance for TLC of four parts of the path an answer takes into the    *)
(* records, which share no state: the converters and observers of a stream,   *)
(* the scanner that finds its events, the logger its entries go through, and  *)
(* the periods a budget sums their costs in.  The first state chooses which   *)
(* of them runs; the others stay as they are.                                 *)
EXTENDS AsyncLogger, AnswerStreams, EventScanner, BudgetPeriods

VARIABLE part

allVars == <<part, vars, streamVars, scannerVars, periodVars>>

MCInit ==
    /\ part \in {"logger", "streams", "scanner", "periods"}
    /\ Init
    /\ StreamsInit /\ (part = "streams" \/ <<dialect, endpoint>> = <<"openai", "messages">>)
    /\ ScannerInit
    /\ PeriodsInit /\ (part = "periods" \/ budget = [period |-> "day", anchor |-> 0, hour |-> 0])

MCNext ==
    /\ UNCHANGED part
    /\ \/ part = "logger" /\ Next /\ UNCHANGED <<streamVars, scannerVars, periodVars>>
       \/ part = "streams" /\ StreamsNext /\ UNCHANGED <<vars, scannerVars, periodVars>>
       \/ part = "scanner" /\ ScannerNext /\ UNCHANGED <<vars, streamVars, periodVars>>
       \/ part = "periods" /\ PassTime /\ UNCHANGED <<vars, streamVars, scannerVars>>

\* In the other parts the logger has nothing to do and its fairness holds.
MCSpec == MCInit /\ [][MCNext]_allVars /\ LoggerFairness
=============================================================================
