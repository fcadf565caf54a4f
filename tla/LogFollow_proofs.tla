-------------------------- MODULE LogFollow_proofs --------------------------
(****************************************************************************)
(* Theorems about LogFollow, for every number of lines, generations and     *)
(* events.                                                                  *)
(****************************************************************************)
EXTENDS LogFollow, TLAPS

----------------------------------------------------------------------------
(* Type correctness.  The type invariant in three parts, one per kind of    *)
(* state; it is inductive once a missing log is known to have a next        *)
(* generation.                                                              *)
LogType ==
  /\ log \in [Gens -> Nat] /\ cur \in Gens
  /\ present \in BOOLEAN /\ rotReq \in BOOLEAN
  /\ ~present => cur < MaxGen

LedgerType ==
  /\ charged \in [Gens -> [LineNos -> Nat]]
  /\ hist \in [Gens -> [LineNos -> Nat]]

DaemonType ==
  /\ pc \in PCs /\ via \in {"queue", "signal"}
  /\ fgen \in Gens /\ pos \in Nat /\ open \in BOOLEAN /\ eof \in BOOLEAN
  /\ offset \in Offsets /\ cyc \in 0..Batch
  /\ reopen \in BOOLEAN /\ sig \in SignalKinds \cup {"none"}
  /\ intr \in BOOLEAN /\ link \in BOOLEAN
  /\ saved \in Offsets
  /\ termSent \in BOOLEAN /\ events \in Nat

TypeInv == LogType /\ LedgerType /\ DaemonType

LEMMA TypeInvImplies == TypeInv => TypeOK
  BY Zenon DEF TypeInv, TypeOK, LogType, LedgerType, DaemonType

LEMMA GenFacts == 0 \in Gens /\ \A g \in Gens : g \in Nat /\ (g < MaxGen => g + 1 \in Gens)
  BY BoundsAssumption DEF Gens

LEMMA UnchargedType == Uncharged \in [Gens -> [LineNos -> Nat]]
  BY DEF Uncharged

LEMMA ToHistoryType == LedgerType => ToHistory \in [Gens -> [LineNos -> Nat]]
  BY DEF LedgerType, ToHistory

LEMMA LogSame == LogType /\ UNCHANGED logVars => LogType'
  BY DEF LogType, logVars

LEMMA LedgerSame == LedgerType /\ UNCHANGED ledgerVars => LedgerType'
  BY Zenon DEF LedgerType, ledgerVars

(* One more charge of a line keeps a ledger well typed, and so does one for *)
(* a line beyond its domain. *)
LEMMA OneMoreType ==
  ASSUME NEW S, NEW f \in [S -> Nat], NEW k
  PROVE  OneMore(f, k) \in [S -> Nat]
<1>1. CASE k \in S
  <2>1. f[k] + 1 \in Nat
    BY <1>1
  <2> QED BY <2>1 DEF OneMore
<1>2. CASE k \notin S
  <2>1. OneMore(f, k) = f
    BY <1>2 DEF OneMore
  <2> QED BY <2>1
<1> QED BY <1>1, <1>2

LEMMA ChargeType ==
  ASSUME LedgerType, fgen \in Gens, Charge, hist' = hist
  PROVE  LedgerType'
<1>1. charged' = [charged EXCEPT ![fgen] = OneMore(charged[fgen], LineAt(pos))]
  BY DEF Charge
<1>2. charged \in [Gens -> [LineNos -> Nat]]
  BY DEF LedgerType
<1>3. OneMore(charged[fgen], LineAt(pos)) \in [LineNos -> Nat]
  <2>1. charged[fgen] \in [LineNos -> Nat]
    BY <1>2
  <2> QED BY <2>1, OneMoreType
<1>4. charged' \in [Gens -> [LineNos -> Nat]]
  BY <1>1, <1>2, <1>3
<1> QED BY <1>4, Zenon DEF LedgerType

LEMMA ExitType ==
  ASSUME Exit, saved' \in Offsets, events' \in Nat
  PROVE  DaemonType'
<1>1. pc' \in PCs /\ via' \in {"queue", "signal"} /\ sig' \in SignalKinds \cup {"none"}
  BY DEF Exit, PCs
<1>2. fgen' \in Gens /\ pos' \in Nat /\ offset' \in Offsets /\ cyc' \in 0..Batch
  BY GenFacts, DelayAssumption DEF Exit, Offsets
<1> QED BY <1>1, <1>2, Zenon DEF DaemonType, Exit

LEMMA ReconfigureType ==
  ASSUME DaemonType, NEW next \in PCs, Reconfigure(next)
  PROVE  /\ pc' \in PCs /\ intr' \in BOOLEAN
         /\ sig' \in SignalKinds \cup {"none"}
BY DEF Reconfigure, DaemonType, PCs, SignalKinds

LEMMA CheckEndsType ==
  ASSUME DaemonType, CheckEnds
  PROVE  /\ pc' \in PCs /\ intr' \in BOOLEAN
         /\ sig' \in SignalKinds \cup {"none"}
BY ReconfigureType DEF CheckEnds, DaemonType, PCs

LEMMA AfterScriptType ==
  ASSUME DaemonType, AfterScript \/ NoScript
  PROVE  /\ pc' \in PCs /\ intr' \in BOOLEAN /\ sig' \in SignalKinds \cup {"none"}
         /\ via' \in {"queue", "signal"} /\ reopen' \in BOOLEAN
BY CheckEndsType DEF AfterScript, NoScript, DaemonType, PCs, SignalKinds

LEMMA TypeInvInit == Init => TypeInv
<1> SUFFICES ASSUME Init PROVE TypeInv
  OBVIOUS
<1>1. LogType
  BY GenFacts DEF Init, LogType
<1>2. LedgerType
  BY UnchargedType DEF Init, LedgerType
<1>3. DaemonType
  <2>1. pc \in PCs /\ via \in {"queue", "signal"} /\ sig \in SignalKinds \cup {"none"}
    BY DEF Init, PCs
  <2>2. /\ fgen \in Gens /\ pos \in Nat /\ offset \in Offsets /\ cyc \in 0..Batch
        /\ saved \in Offsets /\ events \in Nat
    BY GenFacts, DelayAssumption DEF Init, Offsets
  <2> QED BY <2>1, <2>2, Zenon DEF DaemonType, Init
<1> QED BY <1>1, <1>2, <1>3 DEF TypeInv

(* What the daemon does leaves the log to squid. *)
LEMMA DaemonLogType == TypeInv /\ (Start \/ Daemon) => LogType'
<1> SUFFICES ASSUME TypeInv, Start \/ Daemon PROVE LogType'
  OBVIOUS
<1>1. CASE UNCHANGED logVars
  BY <1>1, LogSame DEF TypeInv
<1>2. CASE UNCHANGED <<log, cur, present>> /\ rotReq' \in BOOLEAN
  BY <1>2, Zenon DEF TypeInv, LogType
<1> USE DEF logVars
<1>3. CASE Start
  BY <1>1, <1>3 DEF Start
<1>4. CASE Top
  BY <1>1, <1>4 DEF Top, TopPass, TopReopen, TopDoubleClose, TopMissing
<1>5. CASE Check
  BY <1>1, <1>2, <1>5
     DEF Check, CheckQuiet, CheckReconf, CheckRecount, CheckMonth, RecountBegin,
         RotateBegin, TypeInv, LogType
<1>6. CASE LinkGone
  BY <1>1, <1>6 DEF LinkGone
<1>7. CASE Handle
  BY <1>1, <1>2, <1>7
     DEF Handle, SigNone, SigHup, SigUsr1, SigUsr2, SigTerm, SigClear, RecountBegin,
         RotateBegin, TypeInv, LogType
<1>8. CASE Script
  BY <1>1, <1>8 DEF Script, RecountSql, ScriptRefused, MonthSql, Hung, Spin, Reconf, vars
<1>9. CASE Size
  BY <1>1, <1>9 DEF Size, SizeSmaller, SizeLarger, SizeSame, SizeClosed
<1>10. CASE Read
  BY <1>1, <1>10 DEF Read, ReadLine, ReadTorn, ReadEof, ReadClosed, ReadDone
<1>11. CASE Store
  BY <1>1, <1>11 DEF Store, Save, SaveRefused
<1> QED BY <1>3, <1>4, <1>5, <1>6, <1>7, <1>8, <1>9, <1>10, <1>11 DEF Daemon

(* Only the scripts and the reading loop touch the ledgers. *)
LEMMA DaemonLedgerType == TypeInv /\ (Start \/ Daemon) => LedgerType'
<1> SUFFICES ASSUME TypeInv, Start \/ Daemon PROVE LedgerType'
  OBVIOUS
<1>1. CASE UNCHANGED ledgerVars
  BY <1>1, LedgerSame DEF TypeInv
<1> USE DEF ledgerVars, dbVars
<1>3. CASE Start
  BY <1>1, <1>3 DEF Start
<1>4. CASE Top
  BY <1>1, <1>4 DEF Top, TopPass, TopReopen, TopDoubleClose, TopMissing
<1>5. CASE Check
  BY <1>1, <1>5
     DEF Check, CheckQuiet, CheckReconf, CheckRecount, CheckMonth, RecountBegin, RotateBegin
<1>6. CASE LinkGone
  BY <1>1, <1>6 DEF LinkGone
<1>7. CASE Handle
  BY <1>1, <1>7
     DEF Handle, SigNone, SigHup, SigUsr1, SigUsr2, SigTerm, SigClear, RecountBegin, RotateBegin
<1>8. CASE Script
  <2>1. CASE hist' \in {hist, ToHistory} /\ charged' \in {charged, Uncharged}
    BY <2>1, UnchargedType, ToHistoryType DEF TypeInv, LedgerType
  <2>2. CASE ScriptRefused \/ Hung \/ Spin \/ Reconf
    BY <1>1, <2>2 DEF ScriptRefused, Hung, Spin, Reconf, vars
  <2>3. CASE RecountSql
    BY <2>1, <2>3 DEF RecountSql
  <2>4. CASE MonthSql
    BY <2>1, <2>4 DEF MonthSql, MonthPart
  <2> QED BY <1>8, <2>2, <2>3, <2>4 DEF Script
<1>9. CASE Size
  BY <1>1, <1>9 DEF Size, SizeSmaller, SizeLarger, SizeSame, SizeClosed
<1>10. CASE Read
  <2>1. CASE Charge /\ hist' = hist
    BY <2>1, ChargeType DEF TypeInv, DaemonType
  <2> QED BY <1>1, <1>10, <2>1
             DEF Read, ReadLine, ReadTorn, ReadEof, ReadClosed, ReadDone
<1>11. CASE Store
  BY <1>1, <1>11 DEF Store, Save, SaveRefused
<1> QED BY <1>3, <1>4, <1>5, <1>6, <1>7, <1>8, <1>9, <1>10, <1>11 DEF Daemon

LEMMA DaemonDaemonType == TypeInv /\ (Start \/ Daemon) => DaemonType'
<1> SUFFICES ASSUME TypeInv, Start \/ Daemon PROVE DaemonType'
  OBVIOUS
<1>1. DaemonType /\ cur \in Gens /\ log[cur] \in Nat /\ log[fgen] \in Nat
  BY DEF TypeInv, LogType, DaemonType
<1> USE DEF DaemonType, fpVars, dbVars, histVars, Spend, Offsets, PCs
<1>3. CASE Start
  BY <1>1, <1>3 DEF Start
<1>4. CASE Top
  <2>1. /\ NextCheck => cyc' \in 0..Batch /\ pc' \in PCs
        /\ Tick \in 0..Batch
    BY <1>1, DelayAssumption DEF NextCheck, Tick
  <2>2. CASE TopPass
    BY <1>1, <2>1, <2>2 DEF TopPass
  <2>3. CASE TopReopen
    <3>1. offset' \in Nat
      BY <1>1, <2>3 DEF TopReopen, Above, Huge
    <3> QED BY <1>1, <2>1, <2>3, <3>1 DEF TopReopen
  <2>4. CASE TopDoubleClose
    BY <1>1, <2>4, ExitType DEF TopDoubleClose
  <2>5. CASE TopMissing
    BY <1>1, <2>1, <2>5, ExitType DEF TopMissing
  <2> QED BY <1>4, <2>2, <2>3, <2>4, <2>5 DEF Top
<1>5. CASE Check
  <2>2. CASE CheckQuiet
    BY <1>1, <2>2, CheckEndsType DEF CheckQuiet
  <2>3. CASE CheckReconf
    BY <1>1, <2>3, ReconfigureType DEF CheckReconf
  <2>4. CASE CheckRecount
    <3>1. offset' = 0 /\ saved' = 0 /\ pos' = 0 /\ pc' = "recount" /\ via' = "queue"
      BY <2>4 DEF CheckRecount, RecountBegin
    <3>2. /\ UNCHANGED <<fgen, open, reopen, sig, intr, cyc, link, termSent>>
          /\ eof' = FALSE /\ events' \in Nat
      BY <1>1, <2>4 DEF CheckRecount, RecountBegin
    <3> QED BY <1>1, <3>1, <3>2
  <2>5. CASE CheckMonth
    BY <1>1, <2>5 DEF CheckMonth, RotateBegin
  <2> QED BY <1>5, <2>2, <2>3, <2>4, <2>5 DEF Check
<1>6. CASE LinkGone
  BY <1>1, <1>6, ExitType DEF LinkGone
<1>7. CASE Handle
  <2>1. CASE SigTerm
    BY <1>1, <2>1, ExitType DEF SigTerm
  <2>2. CASE SigNone \/ SigHup \/ SigClear
    BY <1>1, <2>2 DEF SigNone, SigHup, SigClear
  <2>3. CASE SigUsr1
    BY <1>1, <2>3 DEF SigUsr1, RotateBegin
  <2>4. CASE SigUsr2
    BY <1>1, <2>4 DEF SigUsr2, RecountBegin
  <2> QED BY <1>7, <2>1, <2>2, <2>3, <2>4 DEF Handle
<1>8. CASE Script
  <2>1. CASE RecountSql
    <3>1. events' \in Nat /\ (AfterScript \/ NoScript)
      BY <1>1, <2>1 DEF RecountSql
    <3> QED BY <1>1, <2>1, <3>1, AfterScriptType DEF RecountSql
  <2>2. CASE ScriptRefused
    BY <1>1, <2>2, ExitType DEF ScriptRefused
  <2>3. CASE MonthSql
    <3>1. offset' \in Offsets /\ SeekTo(offset') \in Nat
      BY <1>1, <2>3 DEF MonthSql, SeekTo, Huge
    <3>2. saved' \in Offsets /\ events' \in Nat /\ (AfterScript \/ NoScript)
      BY <1>1, <2>3 DEF MonthSql, MonthPart
    <3> QED BY <1>1, <2>3, <3>1, <3>2, AfterScriptType DEF MonthSql
  <2>4. CASE Reconf
    BY <1>1, <2>4, ReconfigureType DEF Reconf
  <2>5. CASE Hung \/ Spin
    BY <1>1, <2>5 DEF Hung, Spin, vars
  <2> QED BY <1>8, <2>1, <2>2, <2>3, <2>4, <2>5 DEF Script
<1>9. CASE Size
  <2>1. CASE SizeClosed
    BY <1>1, <2>1, ExitType DEF SizeClosed
  <2> QED BY <1>1, <1>9, <2>1
             DEF Size, SizeSmaller, SizeLarger, SizeSame, Above
<1>10. CASE Read
  <2>1. CASE ReadLine
    <3>1. pos' \in Nat /\ cyc' \in 0..Batch
      BY <1>1, <2>1, DelayAssumption DEF ReadLine, InLoop
    <3>2. intr' \in {intr, TRUE} /\ events' \in {events, events + 1}
      BY <2>1 DEF ReadLine
    <3>3. intr' \in BOOLEAN
      BY <1>1, <3>2, Zenon
    <3>4. events' \in Nat
      BY <1>1, <3>2
    <3> QED BY <1>1, <2>1, <3>1, <3>3, <3>4 DEF ReadLine
  <2>2. CASE ReadTorn
    <3>1. pos' \in Nat /\ cyc' \in 0..Batch /\ eof' \in BOOLEAN
      BY <1>1, <2>2, DelayAssumption DEF ReadTorn, InLoop
    <3>2. intr' \in BOOLEAN
      BY <1>1, <2>2 DEF ReadTorn
    <3> QED BY <1>1, <2>2, <3>1, <3>2 DEF ReadTorn
  <2>3. CASE ReadEof
    BY <1>1, <2>3, DelayAssumption DEF ReadEof, InLoop
  <2>4. CASE ReadClosed \/ ReadDone
    BY <1>1, <2>4, DelayAssumption DEF ReadClosed, ReadDone
  <2> QED BY <1>10, <2>1, <2>2, <2>3, <2>4 DEF Read
<1>11. CASE Store
  BY <1>1, <1>11, ExitType DEF Store, Save, SaveRefused
<1> QED BY <1>3, <1>4, <1>5, <1>6, <1>7, <1>8, <1>9, <1>10, <1>11 DEF Daemon

LEMMA WorldType == TypeInv /\ World => TypeInv'
<1> SUFFICES ASSUME TypeInv, World PROVE TypeInv'
  OBVIOUS
<1>1. LogType /\ LedgerType /\ DaemonType
  BY DEF TypeInv
<1>2. LedgerType'
  <2>1. CASE MonthCut
    <3>1. hist' \in {hist, ToHistory} /\ charged' \in {charged, Uncharged}
      BY <2>1 DEF MonthCut, MonthPart, dbVars
    <3> QED BY <1>1, <3>1, UnchargedType, ToHistoryType DEF LedgerType
  <2>2. CASE ~MonthCut
    <3>1. UNCHANGED ledgerVars
      BY <2>2 DEF World, Squid, SquidWrite, SquidRename, SquidCreate, Truncate,
             Signal, LoseLink, Crash, dbVars, ledgerVars
    <3> QED BY <1>1, <3>1, LedgerSame
  <2> QED BY <2>1, <2>2
<1>3. LogType'
  <2>1. CASE SquidWrite
    BY <1>1, <2>1 DEF LogType, SquidWrite
  <2>2. CASE SquidRename \/ SquidCreate \/ Truncate
    BY <1>1, <2>2, GenFacts DEF LogType, SquidRename, SquidCreate, Truncate
  <2>3. CASE UNCHANGED logVars
    BY <1>1, <2>3, LogSame
  <2> QED BY <2>1, <2>2, <2>3
             DEF World, Squid, Signal, LoseLink, Crash, MonthCut, logVars
<1>4. DaemonType'
  <2> USE DEF DaemonType, fpVars, dbVars, histVars, daemonVars, Spend
  <2>1. CASE Squid
    BY <1>1, <2>1 DEF Squid, SquidWrite, SquidRename, SquidCreate
  <2>2. CASE Truncate
    BY <1>1, <2>2, GenFacts DEF Truncate, LogType
  <2>3. CASE \E s \in Signals : Signal(s)
    <3>1. PICK s \in SignalKinds : Signal(s)
      BY <2>3, EnvironmentAssumption
    <3>2. intr' \in {intr, TRUE} /\ events' = events + 1 /\ events \in Nat
      BY <1>1, <3>1, Zenon DEF Signal
    <3>3. intr' \in BOOLEAN /\ termSent' \in BOOLEAN
      BY <1>1, <3>1, <3>2, Zenon DEF Signal
    <3> QED BY <1>1, <3>1, <3>2, <3>3 DEF Signal
  <2>4. CASE LoseLink
    <3>1. /\ UNCHANGED <<pc, via, fgen, pos, open, eof, offset, cyc, reopen, sig,
                         intr, saved, termSent>>
          /\ link' = FALSE /\ events' \in Nat
      BY <1>1, <2>4 DEF LoseLink
    <3> QED BY <1>1, <3>1
  <2>5. CASE Crash \/ MonthCut
    <3>1. saved' \in Offsets /\ events' \in Nat /\ Exit
      BY <1>1, <2>5 DEF Crash, MonthCut, MonthPart, Offsets
    <3> QED BY <3>1, ExitType
  <2> QED BY <2>1, <2>2, <2>3, <2>4, <2>5 DEF World
<1> QED BY <1>2, <1>3, <1>4 DEF TypeInv

LEMMA TypeInvNext == TypeInv /\ [Next]_vars => TypeInv'
<1> SUFFICES ASSUME TypeInv, [Next]_vars PROVE TypeInv'
  OBVIOUS
<1>1. CASE Start \/ Daemon
  BY <1>1, DaemonLogType, DaemonLedgerType, DaemonDaemonType DEF TypeInv
<1>2. CASE World
  BY <1>2, WorldType
<1>3. CASE UNCHANGED vars
  BY <1>3, Zenon DEF vars, TypeInv, LogType, LedgerType, DaemonType
<1> QED BY <1>1, <1>2, <1>3 DEF Next

LEMMA TypeInvAlways == Spec => []TypeInv
  BY TypeInvInit, TypeInvNext, PTL DEF Spec

(* The state of the daemon, the log and the database stays well typed: in   *)
(* particular cycle_counter stays within the reading loop's limit, and a    *)
(* stream is never positioned at an impossible offset.                      *)
THEOREM TypeCorrect == Spec => []TypeOK
  BY TypeInvAlways, TypeInvImplies, PTL

----------------------------------------------------------------------------
(* Which steps change what. *)

(* Only a line that is read and the scripts change the ledgers. *)
LEMMA LedgerSteps ==
  ASSUME [Next]_vars, ~ReadLine, ~ReadTorn, ~RecountSql, ~MonthSql, ~MonthCut
  PROVE  UNCHANGED ledgerVars
<1> USE DEF dbVars, ledgerVars
<1>1. CASE Start
  BY <1>1 DEF Start
<1>2. CASE Top
  BY <1>2 DEF Top, TopPass, TopReopen, TopDoubleClose, TopMissing
<1>3. CASE Check
  BY <1>3 DEF Check, CheckQuiet, CheckReconf, CheckRecount, CheckMonth,
              RecountBegin, RotateBegin
<1>4. CASE LinkGone
  BY <1>4 DEF LinkGone
<1>5. CASE Handle
  BY <1>5 DEF Handle, SigNone, SigHup, SigUsr1, SigUsr2, SigTerm, SigClear,
              RecountBegin, RotateBegin
<1>6. CASE Script
  BY <1>6 DEF Script, ScriptRefused, Hung, Spin, Reconf, vars
<1>7. CASE Size
  BY <1>7 DEF Size, SizeSmaller, SizeLarger, SizeSame, SizeClosed
<1>8. CASE Read
  BY <1>8 DEF Read, ReadEof, ReadClosed, ReadDone
<1>9. CASE Store
  BY <1>9 DEF Store, Save, SaveRefused
<1>10. CASE World
  BY <1>10 DEF World, Squid, SquidWrite, SquidRename, SquidCreate, Truncate,
               Signal, LoseLink, Crash, MonthCut
<1>11. CASE UNCHANGED vars
  BY <1>11 DEF vars
<1> QED
  BY <1>1, <1>2, <1>3, <1>4, <1>5, <1>6, <1>7, <1>8, <1>9, <1>10, <1>11
     DEF Next, Daemon

(* Only squid and whoever truncates the log change what is at its path. *)
LEMMA LogSteps ==
  ASSUME [Next]_vars, ~Squid, ~Truncate
  PROVE  UNCHANGED <<log, cur, present>>
<1> USE DEF logVars
<1>1. CASE Start
  BY <1>1 DEF Start
<1>2. CASE Top
  BY <1>2 DEF Top, TopPass, TopReopen, TopDoubleClose, TopMissing
<1>3. CASE Check
  BY <1>3 DEF Check, CheckQuiet, CheckReconf, CheckRecount, CheckMonth
<1>4. CASE LinkGone
  BY <1>4 DEF LinkGone
<1>5. CASE Handle
  BY <1>5 DEF Handle, SigNone, SigHup, SigUsr1, SigUsr2, SigTerm, SigClear
<1>6. CASE Script
  BY <1>6 DEF Script, RecountSql, ScriptRefused, MonthSql, Hung, Spin, Reconf, vars
<1>7. CASE Size
  BY <1>7 DEF Size, SizeSmaller, SizeLarger, SizeSame, SizeClosed
<1>8. CASE Read
  BY <1>8 DEF Read, ReadLine, ReadTorn, ReadEof, ReadClosed, ReadDone
<1>9. CASE Store
  BY <1>9 DEF Store, Save, SaveRefused
<1>10. CASE World
  BY <1>10 DEF World, Signal, LoseLink, Crash, MonthCut
<1>11. CASE UNCHANGED vars
  BY <1>11 DEF vars
<1> QED
  BY <1>1, <1>2, <1>3, <1>4, <1>5, <1>6, <1>7, <1>8, <1>9, <1>10, <1>11
     DEF Next, Daemon

(* Where squid_reconfig() and the scripts lead. *)
LEMMA ReconfigureLeads ==
  ASSUME NEW next, Reconfigure(next) PROVE pc' \in {next, "spin"} /\ sig' \in {sig, "TERM"}
BY DEF Reconfigure

LEMMA CheckEndsLeads ==
  ASSUME CheckEnds PROVE pc' \in {"signal", "spin"} /\ sig' \in {sig, "TERM"}
BY ReconfigureLeads DEF CheckEnds

LEMMA ScriptLeads ==
  ASSUME AfterScript \/ NoScript
  PROVE  /\ pc' \in {"reconf", "signal", "spin"} /\ reopen' /\ sig' \in {sig, "TERM"}
         /\ via # "queue" => pc' = "reconf"
BY CheckEndsLeads DEF AfterScript, NoScript

(* What a look at the queue and a script do to the daemon and its stream. *)
LEMMA CheckSteps ==
  ASSUME Check
  PROVE  /\ pc = "check" /\ UNCHANGED <<log, cur, present, fgen, open>>
         /\ \/ CheckMonth
            \/ /\ pc' \in {"signal", "recount", "spin"} /\ UNCHANGED rotReq
               /\ sig' \in {sig, "TERM"}
<1>1. CASE CheckQuiet \/ CheckReconf
  BY <1>1, CheckEndsLeads, ReconfigureLeads DEF CheckQuiet, CheckReconf, logVars, fpVars
<1>2. CASE CheckRecount
  BY <1>2 DEF CheckRecount, RecountBegin
<1>3. CASE CheckMonth
  BY <1>3 DEF CheckMonth, RotateBegin, fpVars
<1> QED BY <1>1, <1>2, <1>3 DEF Check

LEMMA ScriptSteps ==
  ASSUME Script
  PROVE  \/ Exit
         \/ UNCHANGED vars
         \/ /\ pc = "recount" \/ Slept
            /\ UNCHANGED <<logVars, fgen, open>> /\ sig' \in {sig, "TERM"}
            /\ pc' \in {"reconf", "signal", "spin"} /\ reopen'
            /\ via # "queue" => pc' = "reconf"
         \/ /\ pc = "reconf" /\ ~open'
            /\ UNCHANGED <<logVars, fgen>> /\ sig' \in {sig, "TERM"}
            /\ pc' \in {"clear", "spin"} /\ (pc' = "clear" => reopen')
<1> USE DEF logVars, fpVars
<1>1. CASE RecountSql
  <2>1. pc = "recount" /\ UNCHANGED <<logVars, fgen, open>> /\ (AfterScript \/ NoScript)
    BY <1>1 DEF RecountSql
  <2> QED BY <2>1, ScriptLeads
<1>2. CASE MonthSql
  <2>1. Slept /\ UNCHANGED <<logVars, fgen, open>> /\ (AfterScript \/ NoScript)
    BY <1>2 DEF MonthSql
  <2> QED BY <2>1, ScriptLeads
<1>3. CASE Reconf
  <2>1. pc' \in {"clear", "spin"} /\ sig' \in {sig, "TERM"}
    BY <1>3, ReconfigureLeads DEF Reconf
  <2> QED BY <1>3, <2>1 DEF Reconf
<1>4. CASE ScriptRefused \/ Hung \/ Spin
  BY <1>4 DEF ScriptRefused, Hung, Spin
<1> QED BY <1>1, <1>2, <1>3, <1>4 DEF Script

(* The stream stays on its file, and what a handler is about to close is    *)
(* closed next; or it is opened on the log at the path, or lost.            *)
StreamStays ==
  /\ fgen' = fgen /\ (open' => open)
  /\ pc = "reconf" => (pc' = "reconf" \/ ~open')
StreamOpened == fgen' = cur /\ cur' = cur /\ pc \in {"down", "top"}
StreamLost   == fgen' = 0 /\ ~open' /\ pc' = "down"

LEMMA StreamSteps ==
  ASSUME [Next]_vars, ~Truncate
  PROVE  StreamStays \/ StreamOpened \/ StreamLost
<1> USE DEF StreamStays, StreamOpened, StreamLost, fpVars
<1>1. Exit => StreamLost
  BY DEF Exit
<1>2. CASE Start
  BY <1>2 DEF Start, logVars
<1>3. CASE Top
  BY <1>1, <1>3 DEF Top, TopPass, TopReopen, TopDoubleClose, TopMissing, logVars
<1>4. CASE Check
  BY <1>4 DEF Check, CheckQuiet, CheckReconf, CheckRecount, CheckMonth,
              RecountBegin, RotateBegin
<1>5. CASE LinkGone
  BY <1>1, <1>5 DEF LinkGone
<1>6. CASE Handle
  BY <1>1, <1>6 DEF Handle, SigNone, SigHup, SigUsr1, SigUsr2, SigTerm, SigClear,
                    RecountBegin, RotateBegin
<1>7. CASE Script
  BY <1>1, <1>7, ScriptSteps DEF Slept, vars
<1>8. CASE Size
  BY <1>1, <1>8 DEF Size, SizeSmaller, SizeLarger, SizeSame, SizeClosed
<1>9. CASE Read
  BY <1>9 DEF Read, ReadLine, ReadTorn, ReadEof, ReadClosed, ReadDone
<1>10. CASE Store
  BY <1>1, <1>10 DEF Store, Save, SaveRefused
<1>11. CASE World
  BY <1>1, <1>11 DEF World, Squid, SquidWrite, SquidRename, SquidCreate,
                     Signal, LoseLink, Crash, MonthCut, daemonVars
<1>12. CASE UNCHANGED vars
  BY <1>12 DEF vars
<1> QED
  BY <1>2, <1>3, <1>4, <1>5, <1>6, <1>7, <1>8, <1>9, <1>10, <1>11, <1>12
     DEF Next, Daemon

(* A charge counts one line of one file up by one. *)
LEMMA ChargeAt ==
  ASSUME TypeInv, Charge, NEW g \in Gens, NEW k \in LineNos
  PROVE  charged'[g][k] =
           charged[g][k] + (IF g = fgen /\ k = LineAt(pos) THEN 1 ELSE 0)
<1>1. charged' = [charged EXCEPT ![fgen] = OneMore(charged[fgen], LineAt(pos))]
  BY DEF Charge
<1>2. charged \in [Gens -> [LineNos -> Nat]] /\ fgen \in Gens
  BY DEF TypeInv, LedgerType, DaemonType
<1>3. charged[fgen] \in [LineNos -> Nat] /\ charged[g][k] \in Nat
  BY <1>2
<1>4. CASE g = fgen
  <2>1. charged'[g] = OneMore(charged[fgen], LineAt(pos))
    BY <1>1, <1>2, <1>4
  <2> QED BY <1>3, <1>4, <2>1 DEF OneMore
<1>5. CASE g # fgen
  <2>1. charged'[g] = charged[g]
    BY <1>1, <1>2, <1>5
  <2> QED BY <1>3, <1>5, <2>1
<1> QED BY <1>4, <1>5

----------------------------------------------------------------------------
(* The closed stream. *)
LEMMA ClosedInit == Init => ClosedStreamConfined
  BY DEF Init, ClosedStreamConfined

LEMMA ClosedNext == ClosedStreamConfined /\ [Next]_vars => ClosedStreamConfined'
<1> SUFFICES ASSUME ClosedStreamConfined, [Next]_vars
             PROVE  ClosedStreamConfined'
  OBVIOUS
<1> USE DEF ClosedStreamConfined, fpVars
<1>1. Exit => ClosedStreamConfined'
  BY DEF Exit
<1>2. CASE Start
  BY <1>2 DEF Start
<1>3. CASE Top
  BY <1>1, <1>3 DEF Top, TopPass, TopReopen, TopDoubleClose, TopMissing, NextCheck
<1>4. CASE Check
  BY <1>4 DEF Check, CheckQuiet, CheckReconf, CheckRecount, CheckMonth,
              RecountBegin, RotateBegin
<1>5. CASE LinkGone
  BY <1>1, <1>5 DEF LinkGone
<1>6. CASE Handle
  BY <1>1, <1>6 DEF Handle, SigNone, SigHup, SigUsr1, SigUsr2, SigTerm, SigClear,
                    RecountBegin, RotateBegin
<1>7. CASE Script
  BY <1>1, <1>7, ScriptSteps DEF Slept, vars
<1>8. CASE Size
  BY <1>1, <1>8 DEF Size, SizeSmaller, SizeLarger, SizeSame, SizeClosed
<1>9. CASE Read
  BY <1>9 DEF Read, ReadLine, ReadTorn, ReadEof, ReadClosed, ReadDone
<1>10. CASE Store
  BY <1>1, <1>10 DEF Store, Save, SaveRefused
<1>11. CASE World
  BY <1>1, <1>11 DEF World, Squid, SquidWrite, SquidRename, SquidCreate,
                     Truncate, Signal, LoseLink, Crash, MonthCut, daemonVars
<1>12. CASE UNCHANGED vars
  BY <1>12 DEF vars
<1> QED
  BY <1>2, <1>3, <1>4, <1>5, <1>6, <1>7, <1>8, <1>9, <1>10, <1>11, <1>12
     DEF Next, Daemon

(* Whatever signals, commands and faults occur, in any number: a stream     *)
(* that a handler closed is used only until the end of that turn, and the   *)
(* next turn opens the log again before anything else.                      *)
THEOREM ClosedConfined == Spec => []ClosedStreamConfined
  BY ClosedInit, ClosedNext, PTL DEF Spec

----------------------------------------------------------------------------
(* The months stay apart.  Squid is told to rotate, it does so before the   *)
(* month is closed, and the handler of USR1 closes the stream: the lines in *)
(* uhistory are of files at the path no more, and the stream is on none of  *)
(* them when it is read.  That needs the scripts to be whole and the job to *)
(* come by the signal: from the queue, the stream stays on the old file.    *)
Monthly ==
  "month" \notin Cmds /\ Faults \cap {"script", "nosquid", "slow", "crash"} = {}

(* Nothing is charged of a file that is yet to come, and nothing of the log *)
(* at the path is history. *)
FilesToCome ==
  /\ fgen <= cur
  /\ \A g \in Gens, k \in LineNos :
       /\ g > cur => charged[g][k] = 0
       /\ g >= cur => hist[g][k] = 0

RotatedFirst ==
  pc = "rotate" =>
    /\ via = "signal"
    /\ ~rotReq => \A k \in LineNos : charged[cur][k] = 0

StreamNotHistory ==
  open /\ pc # "reconf" => \A k \in LineNos : hist[fgen][k] = 0

MonthInv == FilesToCome /\ RotatedFirst /\ StreamNotHistory /\ NoLineInTwoMonths

LEMMA MonthInit == Init => MonthInv
<1> SUFFICES ASSUME Init PROVE MonthInv
  OBVIOUS
<1>1. \A g \in Gens, k \in LineNos : charged[g][k] = 0 /\ hist[g][k] = 0
  BY DEF Init, Uncharged
<1> QED
  BY <1>1, GenFacts DEF Init, MonthInv, FilesToCome, RotatedFirst,
                        StreamNotHistory, NoLineInTwoMonths

(* The month job, once squid has rotated. *)
LEMMA MonthMonthSql ==
  ASSUME Monthly, TypeInv, MonthInv, MonthSql
  PROVE  MonthInv'
<1>1. /\ hist' = ToHistory /\ charged' = Uncharged /\ ~rotReq
      /\ UNCHANGED <<cur, fgen, open>>
  BY DEF Monthly, MonthSql, Slept, logVars
<1>2. pc' = "reconf"
  <2>1. AfterScript /\ via # "queue"
    BY DEF Monthly, MonthSql, Slept, MonthInv, RotatedFirst
  <2> QED BY <2>1, ScriptLeads
<1>3. /\ cur \in Nat /\ \A g \in Gens : g \in Nat
      /\ charged \in [Gens -> [LineNos -> Nat]] /\ hist \in [Gens -> [LineNos -> Nat]]
  BY GenFacts DEF TypeInv, LogType, LedgerType
<1>4. \A g \in Gens, k \in LineNos :
        charged'[g][k] = 0 /\ hist'[g][k] = hist[g][k] + charged[g][k]
  BY <1>1 DEF Uncharged, ToHistory
<1>5. \A g \in Gens, k \in LineNos : g >= cur => hist[g][k] = 0 /\ charged[g][k] = 0
  <2>1. \A k \in LineNos : charged[cur][k] = 0
    BY <1>1 DEF MonthSql, Slept, MonthInv, RotatedFirst
  <2>2. ASSUME NEW g \in Gens, g >= cur PROVE g = cur \/ g > cur
    <3>1. g \in Nat /\ cur \in Nat
      BY <1>3
    <3> QED BY <2>2, <3>1
  <2> QED BY <2>1, <2>2 DEF MonthInv, FilesToCome
<1>6. FilesToCome'
  BY <1>1, <1>4, <1>5 DEF FilesToCome, MonthInv
<1>7. RotatedFirst' /\ StreamNotHistory'
  BY <1>2 DEF RotatedFirst, StreamNotHistory
<1>8. NoLineInTwoMonths'
  BY <1>4 DEF NoLineInTwoMonths
<1> QED BY <1>6, <1>7, <1>8 DEF MonthInv

(* A line that is charged is none of history's. *)
LEMMA MonthRead ==
  ASSUME TypeInv, MonthInv, ReadLine \/ ReadTorn
  PROVE  MonthInv'
<1>1. /\ pc = "read" /\ open /\ hist' = hist /\ (charged' = charged \/ Charge)
      /\ UNCHANGED <<cur, fgen, open, pc>>
  BY DEF ReadLine, ReadTorn, logVars
<1>2. /\ cur \in Nat /\ fgen \in Gens /\ \A g \in Gens : g \in Nat
      /\ charged \in [Gens -> [LineNos -> Nat]]
  BY GenFacts DEF TypeInv, LogType, LedgerType, DaemonType
<1>3. \A g \in Gens, k \in LineNos : g # fgen => charged'[g][k] = charged[g][k]
  BY <1>1, <1>2, ChargeAt
<1>4. \A k \in LineNos : hist[fgen][k] = 0
  BY <1>1 DEF MonthInv, StreamNotHistory
<1>5. FilesToCome'
  BY <1>1, <1>2, <1>3 DEF MonthInv, FilesToCome
<1>6. RotatedFirst' /\ StreamNotHistory'
  BY <1>1, <1>4 DEF RotatedFirst, StreamNotHistory
<1>7. NoLineInTwoMonths'
  BY <1>1, <1>3, <1>4 DEF MonthInv, NoLineInTwoMonths
<1> QED BY <1>5, <1>6, <1>7 DEF MonthInv

LEMMA MonthRecount ==
  ASSUME Monthly, MonthInv, RecountSql
  PROVE  MonthInv'
<1>1. /\ charged' = Uncharged /\ hist' = hist /\ UNCHANGED <<cur, fgen, open>>
      /\ pc = "recount" /\ AfterScript
  BY DEF Monthly, RecountSql, logVars, fpVars
<1>2. \A g \in Gens, k \in LineNos : charged'[g][k] = 0
  BY <1>1 DEF Uncharged
<1>3. pc' \in {"reconf", "signal", "spin"}
  BY <1>1, ScriptLeads
<1> QED
  BY <1>1, <1>2, <1>3 DEF MonthInv, FilesToCome, RotatedFirst, StreamNotHistory,
                    NoLineInTwoMonths

(* While the month job waits for squid, only squid gets on. *)
LEMMA RotateSteps ==
  ASSUME Monthly, [Next]_vars, pc' = "rotate", ~rotReq'
  PROVE  /\ pc = "rotate" /\ via' = via
         /\ (rotReq' = rotReq /\ cur' = cur) \/ SquidCreate \/ Truncate
<1> USE DEF logVars
<1>1. ~Exit
  BY DEF Exit
<1>2. CASE Start
  BY <1>2 DEF Start
<1>3. CASE Top
  BY <1>1, <1>3 DEF Top, TopPass, TopReopen, TopDoubleClose, TopMissing, NextCheck
<1>4. CASE Check
  BY <1>4, CheckSteps DEF CheckMonth, Monthly
<1>5. CASE LinkGone
  BY <1>1, <1>5 DEF LinkGone
<1>6. CASE Handle
  BY <1>1, <1>6 DEF Handle, SigNone, SigHup, SigUsr1, SigUsr2, SigTerm, SigClear,
                    RecountBegin, RotateBegin, Monthly
<1>7. CASE Script
  BY <1>1, <1>7, ScriptSteps DEF Slept, vars, RotatedFirst
<1>8. CASE Size
  BY <1>1, <1>8 DEF Size, SizeSmaller, SizeLarger, SizeSame, SizeClosed
<1>9. CASE Read
  BY <1>9 DEF Read, ReadLine, ReadTorn, ReadEof, ReadClosed, ReadDone
<1>10. CASE Store
  BY <1>1, <1>10 DEF Store, Save, SaveRefused
<1>11. CASE World
  BY <1>1, <1>11 DEF World, Squid, SquidWrite, SquidRename, SquidCreate, Truncate,
                     Signal, LoseLink, Crash, MonthCut, daemonVars
<1>12. CASE UNCHANGED vars
  BY <1>12 DEF vars
<1> QED
  BY <1>2, <1>3, <1>4, <1>5, <1>6, <1>7, <1>8, <1>9, <1>10, <1>11, <1>12
     DEF Next, Daemon

(* A month job that begins was asked for by a signal. *)
LEMMA RotateBySignal ==
  ASSUME Monthly, RotatedFirst, [Next]_vars, pc' = "rotate"
  PROVE  via' = "signal"
<1>1. ~Exit
  BY DEF Exit
<1>2. CASE Start
  BY <1>2 DEF Start
<1>3. CASE Top
  BY <1>1, <1>3 DEF Top, TopPass, TopReopen, TopDoubleClose, TopMissing, NextCheck
<1>4. CASE Check
  BY <1>4, CheckSteps DEF CheckMonth, Monthly
<1>5. CASE LinkGone
  BY <1>1, <1>5 DEF LinkGone
<1>6. CASE Handle
  BY <1>1, <1>6 DEF Handle, SigNone, SigHup, SigUsr1, SigUsr2, SigTerm, SigClear,
                    RecountBegin, RotateBegin
<1>7. CASE Script
  BY <1>1, <1>7, ScriptSteps DEF Slept, vars, RotatedFirst
<1>8. CASE Size
  BY <1>1, <1>8 DEF Size, SizeSmaller, SizeLarger, SizeSame, SizeClosed
<1>9. CASE Read
  BY <1>9 DEF Read, ReadLine, ReadTorn, ReadEof, ReadClosed, ReadDone
<1>10. CASE Store
  BY <1>1, <1>10 DEF Store, Save, SaveRefused
<1>11. CASE World
  BY <1>1, <1>11 DEF World, Squid, SquidWrite, SquidRename, SquidCreate, Truncate,
                     Signal, LoseLink, Crash, MonthCut, daemonVars, RotatedFirst
<1>12. CASE UNCHANGED vars
  BY <1>12 DEF vars, RotatedFirst
<1> QED
  BY <1>2, <1>3, <1>4, <1>5, <1>6, <1>7, <1>8, <1>9, <1>10, <1>11, <1>12
     DEF Next, Daemon

(* The steps that charge nothing and close no month. *)
LEMMA MonthOtherwise ==
  ASSUME Monthly, TypeInv, MonthInv, [Next]_vars, UNCHANGED ledgerVars
  PROVE  MonthInv'
<1>1. /\ cur \in Nat /\ fgen \in Gens /\ fgen \in Nat /\ \A g \in Gens : g \in Nat
      /\ charged' = charged /\ hist' = hist
  BY GenFacts DEF TypeInv, LogType, DaemonType, ledgerVars
<1>2. FilesToCome /\ RotatedFirst /\ StreamNotHistory /\ NoLineInTwoMonths
  BY DEF MonthInv
<1>3. cur' = cur \/ (cur' = cur + 1 /\ cur' \in Gens)
  <2>1. CASE Squid \/ Truncate
    <3>1. cur < MaxGen => cur + 1 \in Gens
      BY GenFacts DEF TypeInv, LogType
    <3>2. CASE SquidCreate \/ Truncate
      BY <3>1, <3>2 DEF SquidCreate, Truncate, TypeInv, LogType
    <3> QED BY <2>1, <3>2 DEF Squid, SquidWrite, SquidRename
  <2> QED BY <2>1, LogSteps
<1>4. fgen' <= cur'
  <2>1. CASE Truncate
    BY <1>1, <1>2, <2>1 DEF Truncate, FilesToCome
  <2>2. CASE ~Truncate
    BY <1>1, <1>2, <1>3, <2>2, StreamSteps
       DEF StreamStays, StreamOpened, StreamLost, FilesToCome
  <2> QED BY <2>1, <2>2
<1>5. FilesToCome'
  <2>1. ASSUME NEW g \in Gens, NEW k \in LineNos
        PROVE  /\ g > cur' => charged'[g][k] = 0
               /\ g >= cur' => hist'[g][k] = 0
    <3>1. g \in Nat /\ cur \in Nat
      BY <1>1
    <3>2. (g > cur' => g > cur) /\ (g >= cur' => g >= cur)
      BY <1>3, <3>1
    <3> QED BY <1>1, <1>2, <3>2 DEF FilesToCome
  <2> QED BY <1>4, <2>1 DEF FilesToCome
<1>6. RotatedFirst'
  <2>1. SUFFICES ASSUME pc' = "rotate", ~rotReq', NEW k \in LineNos
                 PROVE  charged[cur'][k] = 0
    BY <1>1, <1>2, RotateBySignal DEF RotatedFirst
  <2>2. CASE cur' = cur + 1
    BY <1>1, <1>2, <1>3, <2>2 DEF FilesToCome
  <2>3. CASE cur' = cur
    <3>1. ~SquidCreate /\ ~Truncate
      BY <1>1, <2>3 DEF SquidCreate, Truncate
    <3>2. pc = "rotate" /\ ~rotReq
      BY <2>1, <3>1, RotateSteps
    <3> QED BY <1>2, <2>3, <3>2 DEF RotatedFirst
  <2> QED BY <1>3, <2>2, <2>3
<1>7. StreamNotHistory'
  <2>1. SUFFICES ASSUME open', pc' # "reconf", NEW k \in LineNos
                 PROVE  hist[fgen'][k] = 0
    BY <1>1 DEF StreamNotHistory
  <2>2. CASE fgen' = fgen /\ open /\ pc # "reconf"
    BY <1>2, <2>2 DEF StreamNotHistory
  <2>3. CASE fgen' \in Gens /\ fgen' >= cur
    BY <1>2, <2>3 DEF FilesToCome
  <2>4. CASE Truncate
    <3>1. cur' = cur + 1 /\ open' = open /\ pc' = pc /\ fgen' \in {fgen, cur + 1}
      BY <2>4 DEF Truncate
    <3>2. cur + 1 \in Gens /\ cur + 1 >= cur
      BY <1>1, <1>3, <3>1
    <3> QED BY <2>1, <2>2, <2>3, <3>1, <3>2
  <2>5. CASE ~Truncate
    <3>1. cur \in Gens /\ cur >= cur
      BY <1>1 DEF TypeInv, LogType
    <3> QED
      BY <2>1, <2>2, <2>3, <2>5, <3>1, StreamSteps
         DEF StreamStays, StreamOpened, StreamLost
  <2> QED BY <2>4, <2>5
<1>8. NoLineInTwoMonths'
  BY <1>1, <1>2 DEF NoLineInTwoMonths
<1> QED BY <1>5, <1>6, <1>7, <1>8 DEF MonthInv

LEMMA MonthAlways == ASSUME Monthly PROVE Spec => []MonthInv
<1>1. TypeInv /\ MonthInv /\ [Next]_vars => MonthInv'
  <2>1. ~MonthCut
    BY DEF MonthCut, Monthly
  <2> QED
    BY <2>1, MonthMonthSql, MonthRead, MonthRecount, MonthOtherwise, LedgerSteps
<1> QED BY <1>1, MonthInit, TypeInvAlways, PTL DEF Spec

(* Whatever else fails, whoever rotates or truncates the log, and at        *)
(* whatever moment the daemon ends: a line that went into uhistory with its *)
(* month is not charged to the current month as well.                       *)
THEOREM MonthsApart == ASSUME Monthly PROVE Spec => []NoLineInTwoMonths
<1>1. MonthInv => NoLineInTwoMonths
  BY DEF MonthInv
<1> QED BY <1>1, MonthAlways, PTL
=============================================================================
