----------------------- MODULE LogFollowBilling_proofs -----------------------
(****************************************************************************)
(* Theorems about what LogFollow charges, for every number of lines,        *)
(* generations and events: each line at least once and in order, each at    *)
(* most once, and that the daemon implements Billing.                       *)
(****************************************************************************)
EXTENDS LogFollowBilling, LogFollow_proofs

----------------------------------------------------------------------------
(* At least once, and in order.  While squid rotates only for the month     *)
(* job, by USR1 and not cut short, writes whole lines, and the statement    *)
(* that charges a line is refused only when the connection is gone, every   *)
(* position that the daemon may start or continue from has all its lines    *)
(* charged in the file it is a position of.                                 *)
OwnRotations ==
  /\ "month" \notin Cmds
  /\ Faults \subseteq {"crash", "link", "script", "badline", "noconf", "nosquid"}
  /\ "USR1" \in Signals => Faults \cap {"crash", "script"} = {}

(* The month job: the positions are those of a file that is being, or has   *)
(* been, rotated away. *)
Away == pc \in {"rotate", "hung"}

Following ==
  /\ sig \in Signals \cup {"none", "TERM"}
  /\ Away => "USR1" \in Signals
  /\ pc = "rotate" => via = "signal"
  /\ (rotReq \/ ~present) => Away
  /\ (open /\ pc # "reconf" /\ ~Away) => fgen = cur

Even(n) == n % 2 = 0

WholeLines ==
  /\ \A g \in Gens : Even(log[g])
  /\ Even(pos)
  /\ saved # Huge => Even(saved)
  /\ offset # Huge => Even(offset)

Covered(g, p) == \A k \in LineNos : 2 * k <= p => Billed(g, k) >= 1

(* The stream stands at a position the daemon will store or read on from. *)
PosCounts ==
  \/ pc = "top" /\ ~reopen
  \/ pc \in {"check", "signal"}
  \/ pc \in {"read", "save"} /\ open /\ link

AllCovered ==
  /\ ~Away => /\ saved # Huge => Covered(cur, saved)
              /\ (pc # "down" /\ offset # Huge) => Covered(cur, offset)
  /\ PosCounts => Covered(fgen, pos)
  /\ pc = "recount" => saved = 0 /\ offset = 0 /\ pos = 0

CoveredInv == Following /\ WholeLines /\ AllCovered

LEMMA NotCut == ASSUME OwnRotations, Following PROVE ~MonthCut
  BY DEF MonthCut, Slept, Following, Away, OwnRotations

LEMMA FollowingNext ==
  ASSUME OwnRotations, Following, [Next]_vars
  PROVE  Following'
<1> USE DEF Following, Away, logVars, fpVars
<1>1. Exit /\ UNCHANGED logVars => (~Away => Following')
  BY DEF Exit
<1>2. CASE Start
  BY <1>2 DEF Start
<1>3. CASE Top
  BY <1>1, <1>3 DEF Top, TopPass, TopReopen, TopDoubleClose, TopMissing, NextCheck
<1>4. CASE Check
  BY <1>4, CheckSteps DEF CheckMonth, OwnRotations
<1>5. CASE LinkGone
  BY <1>1, <1>5 DEF LinkGone
<1>6. CASE Handle
  <2>1. CASE SigUsr1
    <3>1. "USR1" \in Signals
      BY <2>1 DEF SigUsr1
    <3> QED BY <2>1, <3>1 DEF SigUsr1, RotateBegin
  <2> QED
    BY <1>1, <1>6, <2>1 DEF Handle, SigNone, SigHup, SigUsr2, SigTerm, SigClear, RecountBegin
<1>7. CASE Script
  <2>1. CASE ScriptRefused
    BY <1>1, <2>1 DEF ScriptRefused, OwnRotations
  <2>2. CASE Exit /\ ~ScriptRefused
    BY <1>7, <2>2 DEF Script, RecountSql, MonthSql, Hung, Spin, Reconf, vars, Exit,
                     AfterScript, NoScript
  <2>3. CASE ~Exit
    BY <1>7, <2>3, ScriptSteps DEF Slept, OwnRotations, vars
  <2> QED BY <2>1, <2>2, <2>3
<1>8. CASE Size
  BY <1>1, <1>8 DEF Size, SizeSmaller, SizeLarger, SizeSame, SizeClosed
<1>9. CASE Read
  <2>1. pc = "read" /\ pc' \in {"read", "save"} /\ UNCHANGED <<logVars, open, fgen, sig, via>>
    <3>1. CASE ReadLine
      BY <3>1 DEF ReadLine
    <3> QED BY <1>9, <3>1 DEF Read, ReadTorn, ReadEof, ReadClosed, ReadDone
  <2> QED BY <2>1
<1>10. CASE Store
  BY <1>1, <1>10 DEF Store, Save, SaveRefused
<1>11. CASE World
  <2>1. CASE Squid
    BY <2>1 DEF Squid, SquidWrite, SquidRename, SquidCreate, daemonVars, OwnRotations
  <2>2. CASE Truncate \/ MonthCut
    BY <2>2, NotCut DEF Truncate, OwnRotations
  <2>3. CASE \E s \in Signals : Signal(s)
    BY <2>3 DEF Signal
  <2>4. CASE LoseLink
    BY <2>4 DEF LoseLink
  <2>5. CASE Crash
    BY <1>1, <2>5 DEF Crash, OwnRotations
  <2> QED BY <1>11, <2>1, <2>2, <2>3, <2>4, <2>5 DEF World
<1>12. CASE UNCHANGED vars
  BY <1>12 DEF vars
<1> QED
  BY <1>2, <1>3, <1>4, <1>5, <1>6, <1>7, <1>8, <1>9, <1>10, <1>11, <1>12
     DEF Next, Daemon

(* No line is ever met half written. *)
LEMMA NeverTorn == TypeInv /\ WholeLines => ~ReadTorn
<1> SUFFICES ASSUME TypeInv, WholeLines PROVE ~ReadTorn
  OBVIOUS
<1>1. log[fgen] \in Nat /\ pos \in Nat /\ Even(log[fgen]) /\ Even(pos)
  BY DEF TypeInv, LogType, DaemonType, WholeLines
<1>2. pos < log[fgen] => pos + 2 <= log[fgen]
  BY <1>1 DEF Even
<1> QED BY <1>1, <1>2 DEF ReadTorn, Whole, Even

LEMMA WholeLinesNext ==
  ASSUME OwnRotations, TypeInv, WholeLines, [Next]_vars
  PROVE  WholeLines'
<1>1. /\ log \in [Gens -> Nat] /\ cur \in Gens /\ fgen \in Gens /\ pos \in Nat
      /\ offset \in Nat \cup {-1} /\ saved \in Nat \cup {-1}
  BY DEF TypeInv, LogType, DaemonType, Offsets, Huge
<1>2. log[cur] \in Nat /\ log[fgen] \in Nat
  BY <1>1
<1> DEFINE Logs == \A g \in Gens : log[g] % 2 = 0
<1>3. /\ Logs /\ pos % 2 = 0
      /\ saved # -1 => saved % 2 = 0
      /\ offset # -1 => offset % 2 = 0
      /\ log[fgen] % 2 = 0
  BY <1>1 DEF WholeLines, Even, Huge
<1>4. CASE log' # log
  <2>1. SquidWrite /\ log' = [log EXCEPT ![cur] = @ + 2]
    <3>1. Squid \/ Truncate
      BY <1>4, LogSteps
    <3>2. SquidWrite
      BY <1>4, <3>1 DEF Squid, SquidRename, SquidCreate, Truncate, OwnRotations
    <3>3. log[cur] % 2 = 0
      BY <1>1, <1>3
    <3> QED BY <3>2, <3>3 DEF SquidWrite, OwnRotations
  <2>2. \A g \in Gens : log'[g] % 2 = 0
    <3>1. \A g \in Gens : log'[g] = IF g = cur THEN log[g] + 2 ELSE log[g]
      BY <1>1, <2>1
    <3>2. \A g \in Gens : log[g] \in Nat /\ log[g] % 2 = 0
      BY <1>1, <1>3
    <3> QED BY <3>1, <3>2
  <2> QED
    BY <1>3, <2>1, <2>2 DEF WholeLines, Even, Huge, SquidWrite, daemonVars, dbVars, fpVars
<1>5. CASE log' = log
  <2>1. SUFFICES /\ pos' % 2 = 0
                 /\ saved' # -1 => saved' % 2 = 0
                 /\ offset' # -1 => offset' % 2 = 0
    BY <1>3, <1>5 DEF WholeLines, Even, Huge
  <2> HIDE DEF Logs
  <2> USE <1>1, <1>2, <1>3 DEF Huge, fpVars, dbVars
  <2>2. Exit /\ saved' = saved => pos' = 0 /\ offset' = 0 /\ saved' = saved
    BY DEF Exit
  <2>3. CASE UNCHANGED <<pos, saved, offset>>
    BY <2>3
  <2>4. CASE Start
    BY <2>4 DEF Start
  <2>5. CASE Top
    <3>1. CASE TopReopen
      <4>1. offset' \in {0, offset} /\ offset' # -1 /\ pos' = offset' /\ saved' = saved
        BY <3>1 DEF TopReopen, Above
      <4>2. CASE offset' = 0
        BY <4>1, <4>2
      <4>3. CASE offset' = offset
        BY <4>1, <4>3
      <4> QED BY <4>1, <4>2, <4>3
    <3> QED BY <2>2, <2>5, <3>1 DEF Top, TopPass, TopDoubleClose, TopMissing
  <2>6. CASE Check
    BY <2>6 DEF Check, CheckQuiet, CheckReconf, CheckRecount, CheckMonth,
                RecountBegin, RotateBegin
  <2>7. CASE LinkGone
    BY <2>2, <2>7 DEF LinkGone
  <2>8. CASE Handle
    BY <2>8 DEF Handle, SigNone, SigHup, SigUsr1, SigUsr2, SigTerm, SigClear, Exit,
                RecountBegin, RotateBegin
  <2>9. CASE Script
    <3>1. CASE MonthSql
      <4>1. pos' = SeekTo(offset') /\ saved' \in {0, saved} /\ offset' \in {0, offset}
        BY <3>1 DEF MonthSql, MonthPart, dbVars
      <4>2. pos' \in {pos, offset'} /\ (pos' = offset' => offset' # -1 \/ pos' = pos)
        BY <4>1 DEF SeekTo
      <4>3. 0 % 2 = 0
        OBVIOUS
      <4>4. (saved' # -1 => saved' % 2 = 0) /\ (offset' # -1 => offset' % 2 = 0)
        BY <4>1, <4>3
      <4> QED BY <4>2, <4>4
    <3> QED BY <2>2, <2>9, <3>1 DEF Script, RecountSql, ScriptRefused, Hung, Spin, Reconf, vars
  <2>10. CASE Size
    BY <2>2, <2>10 DEF Size, SizeSmaller, SizeLarger, SizeSame, SizeClosed, Above
  <2>11. CASE Read
    <3>1. CASE ReadLine
      BY <3>1 DEF ReadLine
    <3> QED BY <2>11, <3>1, NeverTorn DEF Read, ReadEof, ReadClosed, ReadDone
  <2>12. CASE Store
    BY <2>2, <2>12 DEF Store, Save, SaveRefused
  <2>13. CASE World
    <3>1. CASE MonthCut
      <4>1. saved' \in {saved, 0} /\ pos' = 0 /\ offset' = 0 /\ 0 % 2 = 0
        BY <3>1 DEF MonthCut, MonthPart, Exit
      <4> QED BY <4>1
    <3>2. CASE Crash
      BY <2>2, <3>2 DEF Crash
    <3>3. CASE Squid \/ Truncate \/ LoseLink
      BY <3>3 DEF Squid, SquidWrite, SquidRename, SquidCreate, Truncate, LoseLink,
                  daemonVars
    <3>4. CASE \E s \in Signals : Signal(s)
      BY <3>4 DEF Signal
    <3> QED BY <2>13, <3>1, <3>2, <3>3, <3>4 DEF World
  <2>14. CASE UNCHANGED vars
    BY <2>14 DEF vars
  <2> QED
    BY <2>4, <2>5, <2>6, <2>7, <2>8, <2>9, <2>10, <2>11, <2>12, <2>13, <2>14
       DEF Next, Daemon
<1> QED BY <1>4, <1>5

LEMMA CoveredZero == ASSUME NEW g PROVE Covered(g, 0)
  BY BoundsAssumption DEF Covered, LineNos

(* Reading a whole line covers the stream's new position. *)
LEMMA ReadCovers ==
  ASSUME TypeInv, WholeLines, Charge, hist' = hist, Covered(fgen, pos)
  PROVE  /\ \A g \in Gens, k \in LineNos :
              Billed(g, k) >= 1 => charged'[g][k] + hist'[g][k] >= 1
         /\ \A k \in LineNos :
              2 * k <= pos + 2 => charged'[fgen][k] + hist'[fgen][k] >= 1
<1>1. /\ pos \in Nat /\ Even(pos) /\ fgen \in Gens /\ LineNos \subseteq Nat
      /\ \A g \in Gens, k \in LineNos : charged[g][k] \in Nat /\ hist[g][k] \in Nat
  BY BoundsAssumption DEF WholeLines, TypeInv, LedgerType, DaemonType, LineNos
<1>2. ASSUME NEW g \in Gens, NEW k \in LineNos, Billed(g, k) >= 1
      PROVE  charged'[g][k] + hist'[g][k] >= 1
  <2>1. charged'[g][k] \in {charged[g][k], charged[g][k] + 1}
    BY <1>1, ChargeAt
  <2> QED BY <1>1, <1>2, <2>1 DEF Billed
<1>3. ASSUME NEW k \in LineNos, 2 * k <= pos + 2
      PROVE  charged'[fgen][k] + hist'[fgen][k] >= 1
  <2>1. 2 * k <= pos \/ k = LineAt(pos)
    BY <1>1, <1>3 DEF Even, LineAt
  <2>2. CASE 2 * k <= pos
    BY <1>1, <1>2, <2>2 DEF Covered
  <2>3. CASE k = LineAt(pos)
    <3>1. charged'[fgen][k] = charged[fgen][k] + 1
      BY <1>1, <2>3, ChargeAt
    <3> QED BY <1>1, <3>1
  <2> QED BY <2>1, <2>2, <2>3
<1> QED BY <1>2, <1>3

(* The month job is whole, and was asked for by the signal. *)
LEMMA MonthAway ==
  ASSUME OwnRotations, Following, MonthSql
  PROVE  saved' = 0 /\ offset' = 0 /\ charged' = Uncharged /\ pc' = "reconf"
<1>1. "script" \notin Faults /\ via = "signal"
  BY DEF MonthSql, Slept, Following, Away, OwnRotations
<1>2. AfterScript /\ saved' = 0 /\ offset' = 0 /\ charged' = Uncharged
  BY <1>1 DEF MonthSql
<1> QED BY <1>1, <1>2, ScriptLeads

(* A step that bills nothing and clears nothing. *)
LEMMA AllCoveredSameBill ==
  ASSUME OwnRotations, TypeInv, ClosedStreamConfined, CoveredInv, Next,
         UNCHANGED ledgerVars, ~ReadLine
  PROVE  AllCovered'
<1>1. /\ pos \in Nat /\ offset \in Nat \cup {-1} /\ saved \in Nat \cup {-1}
      /\ log[fgen] \in Nat
  BY DEF TypeInv, LogType, DaemonType, Offsets, Huge
<1>2. Following /\ AllCovered
  BY DEF CoveredInv
<1> DEFINE Cov(g, p) == \A k \in LineNos : 2 * k <= p => charged[g][k] + hist[g][k] >= 1
<1>3. \A g : Cov(g, 0)
  BY CoveredZero DEF Covered, Billed
<1>4. /\ ~Away => /\ saved # Huge => Cov(cur, saved)
                  /\ (pc # "down" /\ offset # Huge) => Cov(cur, offset)
      /\ PosCounts => Cov(fgen, pos)
      /\ pc = "recount" => saved = 0 /\ offset = 0 /\ pos = 0
  BY <1>2 DEF AllCovered, Covered, Billed
<1>5. SUFFICES /\ ~Away' => /\ saved' # Huge => Cov(cur', saved')
                            /\ (pc' # "down" /\ offset' # Huge) => Cov(cur', offset')
               /\ PosCounts' => Cov(fgen', pos')
               /\ pc' = "recount" => saved' = 0 /\ offset' = 0 /\ pos' = 0
  BY DEF AllCovered, Covered, Billed, ledgerVars
<1> HIDE DEF Cov
<1> USE <1>2, <1>3, <1>4
    DEF Following, Away, PosCounts, Huge, logVars, fpVars, dbVars, ledgerVars
<1>6. CASE Exit /\ UNCHANGED <<cur, saved>> /\ ~Away
  BY <1>6 DEF Exit
<1>7. CASE Start
  BY <1>7 DEF Start
<1>8. CASE Top
  <2>1. CASE TopPass
    BY <2>1 DEF TopPass, NextCheck, ClosedStreamConfined
  <2>2. CASE TopReopen
    <3>1. /\ offset' \in {0, offset} /\ pos' = offset' /\ offset' # -1
          /\ saved' = saved /\ pc' \in {"check", "signal"} /\ pc = "top"
          /\ fgen' = cur /\ cur' = cur
      <4>1. pc = "top" /\ pc' \in {"check", "signal"} /\ pos' = offset'
            /\ saved' = saved /\ fgen' = cur /\ cur' = cur
        BY <2>2 DEF TopReopen, NextCheck
      <4>2. offset' = IF Above(offset, log[cur]) THEN 0 ELSE offset
        BY <2>2 DEF TopReopen
      <4>3. log[cur] \in Nat
        BY DEF TypeInv, LogType
      <4> QED BY <1>1, <4>1, <4>2, <4>3 DEF Above
    <3> QED BY <3>1
  <2> QED BY <1>6, <1>8, <2>1, <2>2 DEF Top, TopDoubleClose, TopMissing
<1>9. CASE Check
  <2>1. CASE CheckRecount
    BY <2>1 DEF CheckRecount, RecountBegin
  <2>2. CASE CheckQuiet \/ CheckReconf
    <3>1. pc' \in {"signal", "spin"}
      BY <2>2, CheckEndsLeads, ReconfigureLeads DEF CheckQuiet, CheckReconf
    <3> QED BY <2>2, <3>1 DEF CheckQuiet, CheckReconf
  <2> QED BY <1>9, <2>1, <2>2 DEF Check, CheckMonth, OwnRotations
<1>10. CASE LinkGone
  BY <1>6, <1>10 DEF LinkGone
<1>11. CASE Handle
  <2>1. CASE SigTerm
    BY <2>1 DEF SigTerm, Exit, ClosedStreamConfined
  <2>2. CASE SigUsr2
    BY <2>2 DEF SigUsr2, RecountBegin
  <2>3. CASE SigUsr1
    BY <2>3 DEF SigUsr1, RotateBegin
  <2> QED BY <1>11, <2>1, <2>2, <2>3 DEF Handle, SigNone, SigHup, SigClear
<1>12. CASE Script
  <2>1. CASE RecountSql
    <3>1. pc' \in {"reconf", "signal", "spin"}
      BY <2>1, ScriptLeads DEF RecountSql
    <3> QED BY <2>1, <3>1 DEF RecountSql
  <2>2. CASE Hung \/ Spin
    BY <2>2 DEF Hung, Spin, vars
  <2>3. CASE MonthSql
    BY <2>3, MonthAway, BoundsAssumption
  <2>4. CASE ScriptRefused
    BY <1>6, <2>4 DEF ScriptRefused, OwnRotations
  <2>5. CASE Reconf
    <3>1. pc' \in {"clear", "spin"}
      BY <2>5, ReconfigureLeads DEF Reconf
    <3> QED BY <2>5, <3>1 DEF Reconf
  <2> QED BY <1>12, <2>1, <2>2, <2>3, <2>4, <2>5 DEF Script
<1>13. CASE Size
  <2>1. CASE SizeClosed
    <3>1. pc = "size" /\ ~open /\ reopen
      BY <2>1 DEF SizeClosed, ClosedStreamConfined
    <3>2. CASE /\ pc' \in {"top", "read"}
               /\ UNCHANGED <<cur, fgen, open, pos, offset, reopen, link, saved>>
      BY <3>1, <3>2
    <3> QED BY <1>6, <2>1, <3>2 DEF SizeClosed
  <2>2. CASE SizeSmaller
    BY <2>2 DEF SizeSmaller
  <2>3. CASE SizeLarger
    BY <1>1, <2>3 DEF SizeLarger, Above
  <2>4. CASE SizeSame
    BY <1>1, <2>4 DEF SizeSame
  <2> QED BY <1>13, <2>1, <2>2, <2>3, <2>4 DEF Size
<1>14. CASE Store
  BY <1>6, <1>14 DEF Store, Save, SaveRefused, ClosedStreamConfined
<1>15. CASE World
  <2>1. CASE Squid
    <3>1. /\ UNCHANGED <<pc, open, fgen, pos, offset, reopen, link, saved>>
          /\ cur' = cur \/ ~present
      BY <2>1 DEF Squid, SquidWrite, SquidRename, SquidCreate, daemonVars
    <3> QED BY <3>1
  <2>2. CASE \E s \in Signals : Signal(s)
    BY <2>2 DEF Signal
  <2>3. CASE LoseLink
    BY <2>3 DEF LoseLink
  <2>4. CASE Crash
    BY <1>6, <2>4 DEF Crash, OwnRotations
  <2> QED BY <1>15, <2>1, <2>2, <2>3, <2>4, NotCut DEF World, Truncate, OwnRotations
<1>16. CASE Read
  <2>1. CASE ReadEof
    BY <2>1 DEF ReadEof
  <2>2. CASE ReadClosed
    BY <2>2 DEF ReadClosed
  <2>3. CASE ReadDone
    BY <2>3 DEF ReadDone
  <2> QED BY <1>16, <2>1, <2>2, <2>3, NeverTorn DEF Read, CoveredInv
<1> QED
  BY <1>7, <1>8, <1>9, <1>10, <1>11, <1>12, <1>13, <1>14, <1>15, <1>16
     DEF Next, Daemon

(* The step that bills a line. *)
LEMMA AllCoveredReadLine ==
  ASSUME OwnRotations, TypeInv, CoveredInv, ReadLine
  PROVE  AllCovered'
<1>1. /\ pc = "read" /\ pc' = "read" /\ open /\ hist' = hist
      /\ UNCHANGED <<cur, fgen, saved, offset, open, link>> /\ pos' = pos + 2
      /\ fgen = cur /\ cur \in Gens
  BY DEF ReadLine, logVars, CoveredInv, Following, Away, TypeInv, LogType
<1>2. CASE link /\ Charge
  <2>1. Covered(fgen, pos)
    BY <1>1, <1>2 DEF CoveredInv, AllCovered, PosCounts
  <2>2. /\ \A g \in Gens, k \in LineNos :
             Billed(g, k) >= 1 => charged'[g][k] + hist'[g][k] >= 1
        /\ \A k \in LineNos :
             2 * k <= pos + 2 => charged'[fgen][k] + hist'[fgen][k] >= 1
    BY <1>1, <1>2, <2>1, ReadCovers DEF CoveredInv
  <2>3. /\ saved # Huge => \A k \in LineNos : 2 * k <= saved => Billed(cur, k) >= 1
        /\ offset # Huge => \A k \in LineNos : 2 * k <= offset => Billed(cur, k) >= 1
    BY <1>1 DEF CoveredInv, AllCovered, Away, Covered
  <2>4. /\ saved' # Huge => \A k \in LineNos :
             2 * k <= saved' => charged'[cur'][k] + hist'[cur'][k] >= 1
        /\ offset' # Huge => \A k \in LineNos :
             2 * k <= offset' => charged'[cur'][k] + hist'[cur'][k] >= 1
        /\ \A k \in LineNos : 2 * k <= pos' => charged'[fgen'][k] + hist'[fgen'][k] >= 1
    BY <1>1, <2>2, <2>3
  <2> QED BY <1>1, <2>4 DEF AllCovered, Covered, Billed
<1>3. CASE ~link /\ charged' = charged
  BY <1>1, <1>3 DEF CoveredInv, AllCovered, Covered, Billed, PosCounts, Away
<1> QED BY <1>2, <1>3 DEF ReadLine, OwnRotations

(* The scripts: the position is 0 after them, or stays what it is. *)
LEMMA AllCoveredScripts ==
  ASSUME OwnRotations, CoveredInv, RecountSql \/ MonthSql
  PROVE  AllCovered'
<1>1. CASE RecountSql
  <2>1. saved' = 0 /\ offset' = 0 /\ pos' = 0
    BY <1>1 DEF RecountSql, CoveredInv, AllCovered, fpVars
  <2>2. pc' \in {"reconf", "signal", "spin"}
    BY <1>1, ScriptLeads DEF RecountSql
  <2> QED BY <2>1, <2>2, BoundsAssumption DEF AllCovered, Covered, LineNos
<1>2. CASE MonthSql
  <2>1. saved' = 0 /\ offset' = 0 /\ pc' = "reconf"
    BY <1>2, MonthAway DEF CoveredInv
  <2> QED BY <2>1, BoundsAssumption DEF AllCovered, Covered, LineNos, PosCounts
<1> QED BY <1>1, <1>2

LEMMA AllCoveredNext ==
  ASSUME OwnRotations, TypeInv, ClosedStreamConfined, CoveredInv, [Next]_vars
  PROVE  AllCovered'
<1>1. CASE ReadLine
  BY <1>1, AllCoveredReadLine
<1>2. CASE RecountSql \/ MonthSql
  BY <1>2, AllCoveredScripts
<1>3. CASE Next /\ ~ReadLine /\ ~RecountSql /\ ~MonthSql
  <2>1. UNCHANGED ledgerVars
    BY <1>3, LedgerSteps, NeverTorn, NotCut DEF CoveredInv
  <2> QED BY <1>3, <2>1, AllCoveredSameBill
<1>4. CASE UNCHANGED vars
  BY <1>4 DEF vars, CoveredInv, AllCovered, Covered, Billed, PosCounts, Away
<1> QED BY <1>1, <1>2, <1>3, <1>4

LEMMA CoveredInit == Init => CoveredInv
<1> SUFFICES ASSUME Init PROVE CoveredInv
  OBVIOUS
<1>1. Following
  BY DEF Init, Following, Away
<1>2. WholeLines
  BY DEF Init, WholeLines, Even
<1>3. AllCovered
  BY CoveredZero DEF Init, AllCovered, PosCounts
<1> QED BY <1>1, <1>2, <1>3 DEF CoveredInv

LEMMA CoveredAlways == ASSUME OwnRotations PROVE Spec => []CoveredInv
<1>1. TypeInv /\ ClosedStreamConfined /\ CoveredInv /\ [Next]_vars => CoveredInv'
  BY FollowingNext, WholeLinesNext, AllCoveredNext DEF CoveredInv
<1> QED BY <1>1, CoveredInit, TypeInvAlways, ClosedConfined, PTL DEF Spec

(* While nobody rotates the log: however often the daemon crashes, is       *)
(* stopped, loses its connection, is sent HUP or USR2 or is told to         *)
(* recount, and wherever between two statements that happens, what it       *)
(* stored in sys_trf never lies beyond a line that was not charged.         *)
Recoverable == OwnRotations /\ "USR1" \notin Signals

THEOREM NoneSkipped == ASSUME Recoverable PROVE Spec => []NoLineSkipped
<1>1. OwnRotations
  BY DEF Recoverable
<1>2. CoveredInv => NoLineSkipped
  BY DEF CoveredInv, Following, AllCovered, Covered, NoLineSkipped, Recoverable
<1> QED BY <1>1, <1>2, CoveredAlways, PTL

(* And with rotations for the month job, too: what is charged next comes    *)
(* right after what was charged of the same file.  Nothing is jumped over   *)
(* when the month is closed and the new log opened, nor by whatever the     *)
(* signals, the queue, a lost connection or a restart do.                   *)
THEOREM InOrder == ASSUME OwnRotations PROVE Spec => ChargesInOrder
<1> DEFINE Rise(g, k) == charged'[g][k] > charged[g][k]
           Step == \A g \in Gens, k \in LineNos :
                     Rise(g, k) => \A j \in 1..(k-1) : Billed(g, j) >= 1
<1>1. ASSUME TypeInv, CoveredInv, Next PROVE Step
  <2>1. SUFFICES ASSUME NEW g \in Gens, NEW k \in LineNos, Rise(g, k),
                        NEW j \in 1..(k-1)
                 PROVE  Billed(g, j) >= 1
    OBVIOUS
  <2>2. charged[g][k] \in Nat /\ k \in Nat /\ k <= MaxLines /\ MaxLines \in Nat /\ j \in LineNos
    <3>1. charged[g][k] \in Nat
      BY <1>1 DEF TypeInv, LedgerType
    <3> QED BY <3>1, BoundsAssumption DEF LineNos
  <2>3. charged' # charged /\ ~(charged' = Uncharged)
    BY <2>1, <2>2 DEF Uncharged
  <2>4. ReadLine
    <3>1. ~MonthSql
      <4> QED BY <1>1, <2>3, MonthAway DEF CoveredInv
    <3>2. ~RecountSql
      BY <2>3 DEF RecountSql
    <3> QED BY <1>1, <2>3, <3>1, <3>2, LedgerSteps, NeverTorn, NotCut DEF CoveredInv, ledgerVars
  <2>5. link /\ Charge /\ pc = "read" /\ open
    BY <2>3, <2>4 DEF ReadLine
  <2>6. g = fgen /\ k = LineAt(pos)
    BY <1>1, <2>1, <2>2, <2>5, ChargeAt
  <2>7. Covered(fgen, pos) /\ Even(pos) /\ pos \in Nat
    BY <1>1, <2>5 DEF CoveredInv, AllCovered, PosCounts, WholeLines, TypeInv, DaemonType
  <2>8. 2 * j <= pos
    BY <2>2, <2>6, <2>7 DEF Even, LineAt
  <2> QED BY <2>2, <2>6, <2>7, <2>8 DEF Covered
<1>2. TypeInv /\ CoveredInv /\ [Next]_vars => [Step]_vars
  BY <1>1
<1> QED BY <1>2, CoveredAlways, TypeInvAlways, PTL DEF Spec, ChargesInOrder

----------------------------------------------------------------------------
(* At most once.  While only TERM ends the daemon, nobody sends it HUP and  *)
(* the month job waits for squid, what is charged of a file lies behind the *)
(* position the daemon goes on from in that file, however the log is        *)
(* rotated, truncated or written in pieces; nothing is charged of a file    *)
(* the daemon has not opened yet, wherever the position it brings along     *)
(* lies; and after a script for a signal nothing at all is, until the log   *)
(* has been opened again.                                                   *)
CleanStops == Monthly /\ "link" \notin Faults /\ "HUP" \notin Signals

Undisturbed ==
  /\ sig # "HUP"
  /\ pc # "down" => link
  /\ pc = "recount" => offset = 0 /\ pos = 0
  /\ open /\ (pc \in {"check", "signal", "clear", "size"} \/ (pc = "top" /\ ~reopen))
       => pos = IF offset = Huge THEN 0 ELSE offset

ChargedOnce == \A g \in Gens, k \in LineNos : charged[g][k] <= 1 /\ hist[g][k] <= 1

Untouched(g) == \A k \in LineNos : charged[g][k] = 0

(* The handlers of USR1 and USR2 have the counters cleared before they      *)
(* close the stream, and lose the position. *)
Emptied == pc = "reconf" \/ (pc # "down" /\ ~open) => \A g \in Gens : Untouched(g)

(* A line whose first half is charged counts as one when that was read;     *)
(* behind Huge is none.                                                     *)
Early(k) == IF k \in LateCuts THEN 1 ELSE 0

Behind(g, p) ==
  \A k \in LineNos : charged[g][k] >= 1 => 2 * k <= p + Early(k) /\ p <= log[g]

ChargedBehind ==
  /\ pc = "down" /\ present => Behind(cur, saved)
  /\ pc # "down" /\ fgen # cur => Untouched(cur)
  /\ pc \in {"top", "check", "signal", "clear", "size"} => Behind(fgen, offset)
  /\ pc \in {"read", "save"} => Behind(fgen, pos)

OnceInv == Undisturbed /\ ChargedOnce /\ Emptied /\ ChargedBehind

(* What OnceInv rests on. *)
OnceBase == TypeInv /\ MonthInv /\ ClosedStreamConfined

LEMMA EarlyFacts == \A k : Early(k) \in {0, 1} /\ (k \in EarlyCuts => Early(k) = 0)
  BY CutAssumption DEF Early

LEMMA OnceInit == Init => OnceInv
<1> SUFFICES ASSUME Init PROVE OnceInv
  OBVIOUS
<1>1. \A g \in Gens, k \in LineNos : charged[g][k] = 0 /\ hist[g][k] = 0
  BY DEF Init, Uncharged
<1>2. ChargedOnce
  BY <1>1 DEF ChargedOnce
<1>3. ChargedBehind
  BY <1>1, GenFacts DEF Init, ChargedBehind, Behind
<1> QED BY <1>2, <1>3 DEF Init, OnceInv, Undisturbed, Emptied

(* What can happen there. *)
CleanNext ==
  \/ Start \/ TopPass \/ TopReopen \/ TopDoubleClose \/ TopMissing
  \/ CheckQuiet \/ CheckReconf \/ CheckRecount
  \/ SigNone \/ SigUsr1 \/ SigUsr2 \/ SigTerm \/ SigClear
  \/ RecountSql \/ MonthSql \/ Reconf
  \/ SizeSmaller \/ SizeLarger \/ SizeSame \/ SizeClosed
  \/ ReadLine \/ ReadTorn \/ ReadEof \/ ReadClosed \/ ReadDone
  \/ Save \/ SaveRefused
  \/ Squid \/ Truncate \/ \E s \in Signals : Signal(s)

LEMMA CleanSteps ==
  ASSUME CleanStops, Undisturbed, [Next]_vars
  PROVE  CleanNext \/ UNCHANGED vars
<1> USE DEF CleanNext, Undisturbed
<1>1. CASE Top
  BY <1>1 DEF Top
<1>2. CASE Check
  BY <1>2 DEF Check, CheckMonth, CleanStops, Monthly
<1>3. ~LinkGone
  BY DEF LinkGone
<1>4. CASE Handle
  BY <1>4 DEF Handle, SigHup
<1>5. CASE Script
  BY <1>5 DEF Script, ScriptRefused, Hung, Spin, CleanStops, Monthly
<1>6. CASE Size
  BY <1>6 DEF Size
<1>7. CASE Read
  BY <1>7 DEF Read
<1>8. CASE Store
  BY <1>8 DEF Store
<1>9. CASE World
  BY <1>9 DEF World, LoseLink, Crash, MonthCut, CleanStops, Monthly
<1> QED
  BY <1>1, <1>2, <1>3, <1>4, <1>5, <1>6, <1>7, <1>8, <1>9 DEF Next, Daemon

LEMMA UndisturbedNext ==
  ASSUME CleanStops, OnceBase, Undisturbed, [Next]_vars
  PROVE  Undisturbed'
<1>1. pos \in Nat /\ offset \in Offsets /\ log[fgen] \in Nat /\ log[cur] \in Nat
  BY DEF OnceBase, TypeInv, LogType, DaemonType
<1> USE <1>1 DEF Undisturbed, logVars, fpVars, dbVars, histVars, daemonVars, Huge, Offsets
<1>2. CASE Start
  BY <1>2 DEF Start
<1>3. CASE TopPass \/ TopDoubleClose \/ TopMissing
  BY <1>3 DEF TopPass, TopDoubleClose, TopMissing, NextCheck, Exit
<1>4. CASE TopReopen
  BY <1>4 DEF TopReopen, NextCheck, Above
<1>5. CASE CheckQuiet \/ CheckReconf
  <2>1. pc' \in {"signal", "spin"} /\ sig' \in {sig, "TERM"}
    BY <1>5, CheckEndsLeads, ReconfigureLeads DEF CheckQuiet, CheckReconf
  <2> QED BY <1>5, <2>1 DEF CheckQuiet, CheckReconf
<1>6. CASE CheckRecount \/ SigUsr2
  BY <1>6 DEF CheckRecount, SigUsr2, RecountBegin
<1>7. CASE SigNone \/ SigClear
  BY <1>7 DEF SigNone, SigClear
<1>8. CASE SigTerm
  BY <1>8 DEF SigTerm, Exit
<1>9. CASE SigUsr1
  BY <1>9 DEF SigUsr1, RotateBegin
<1>10. CASE RecountSql
  <2>1. pc' \in {"reconf", "signal", "spin"} /\ sig' \in {sig, "TERM"}
    BY <1>10, ScriptLeads DEF RecountSql
  <2> QED BY <1>10, <2>1 DEF RecountSql
<1>11. CASE MonthSql
  <2>1. pc' = "reconf" /\ sig' \in {sig, "TERM"}
    BY <1>11, ScriptLeads DEF MonthSql, Slept, OnceBase, MonthInv, RotatedFirst
  <2>2. link' = link /\ pc # "down"
    BY <1>11 DEF MonthSql, Slept
  <2> QED BY <2>1, <2>2
<1>12. CASE Reconf
  <2>1. pc' \in {"clear", "spin"} /\ sig' \in {sig, "TERM"}
    BY <1>12, ReconfigureLeads DEF Reconf
  <2> QED BY <1>12, <2>1 DEF Reconf
<1>13. CASE SizeSmaller \/ SizeLarger \/ SizeSame
  BY <1>13 DEF SizeSmaller, SizeLarger, SizeSame
<1>14. CASE SizeClosed
  <2>1. ~open' /\ sig' # "HUP" /\ (pc' # "down" => link') /\ pc' # "recount"
    <3>1. CASE Exit
      BY <3>1 DEF Exit
    <3>2. CASE ~Exit
      <4>1. /\ pc = "size" /\ ~open /\ pc' \in {"top", "read"}
            /\ open' = open /\ sig' = sig /\ link' = link
        BY <1>14, <3>2 DEF SizeClosed
      <4> QED BY <4>1
    <3> QED BY <3>1, <3>2
  <2> QED BY <2>1
<1>15. CASE ReadLine \/ ReadTorn \/ ReadEof \/ ReadClosed \/ ReadDone
  BY <1>15 DEF ReadLine, ReadTorn, ReadEof, ReadClosed, ReadDone
<1>16. CASE Save \/ SaveRefused
  BY <1>16 DEF Save, SaveRefused, Exit
<1>17. CASE Squid \/ Truncate
  BY <1>17 DEF Squid, SquidWrite, SquidRename, SquidCreate, Truncate
<1>18. CASE \E s \in Signals : Signal(s)
  BY <1>18 DEF Signal, CleanStops
<1>19. CASE UNCHANGED vars
  BY <1>19 DEF vars
<1> QED
  BY <1>2, <1>3, <1>4, <1>5, <1>6, <1>7, <1>8, <1>9, <1>10, <1>11, <1>12, <1>13,
     <1>14, <1>15, <1>16, <1>17, <1>18, <1>19, CleanSteps DEF CleanNext

(* A line that is charged was not charged before, and lies behind the       *)
(* stream's new position then. *)
LEMMA OnceRead ==
  ASSUME TypeInv, OnceInv, ReadLine \/ ReadTorn
  PROVE  ChargedOnce' /\ Emptied' /\ ChargedBehind'
<1>1. /\ pc = "read" /\ pc' = "read" /\ open /\ open'
      /\ UNCHANGED <<log, cur, present, fgen, hist>>
      /\ charged' = charged \/ (Charge /\ (pos % 2 = 0 \/ LineAt(pos) \in EarlyCuts))
      /\ pos % 2 = 0 /\ charged' # charged /\ pos' = pos + 1 => LineAt(pos) \in LateCuts
      /\ pos' \in {pos + 1, pos + 2} /\ pos' <= log[fgen]
  <2>1. CASE ReadLine
    <3>1. pos' = pos + 2 /\ pos \in Nat
      BY <2>1 DEF ReadLine, TypeInv, DaemonType
    <3> QED BY <2>1, <3>1 DEF ReadLine, Whole, logVars
  <2>2. CASE ReadTorn
    <3>1. pos \in Nat /\ log[fgen] \in Nat
      BY DEF TypeInv, LogType, DaemonType
    <3>2. pos < log[fgen] => pos + 1 <= log[fgen]
      BY <3>1
    <3> QED BY <2>2, <3>1, <3>2 DEF ReadTorn, Parses, logVars
  <2> QED BY <2>1, <2>2
<1>2. /\ pos \in Nat /\ fgen \in Gens /\ cur \in Gens /\ LineNos \subseteq Nat
      /\ \A g \in Gens : g \in Nat /\ \A k \in LineNos : charged[g][k] \in Nat
  BY GenFacts, BoundsAssumption
     DEF TypeInv, LogType, LedgerType, DaemonType, LineNos
<1>3. ChargedOnce /\ Behind(fgen, pos) /\ (fgen # cur => Untouched(cur))
  BY <1>1 DEF OnceInv, ChargedBehind
<1>4. ASSUME NEW g \in Gens, NEW k \in LineNos
      PROVE  \/ charged'[g][k] = charged[g][k]
             \/ /\ g = fgen /\ 2 * k <= pos' + Early(k)
                /\ charged[g][k] = 0 /\ charged'[g][k] = 1
  <2>1. CASE /\ charged' # charged /\ g = fgen /\ k = LineAt(pos)
    <3>1. Charge /\ k \in Nat
      BY <1>1, <1>2, <2>1
    <3>2. charged'[g][k] = charged[g][k] + 1
      BY <2>1, <3>1, ChargeAt
    <3>3. CASE pos % 2 = 0
      <4>1. 2 * k = pos + 2
        BY <1>2, <2>1, <3>3 DEF LineAt
      <4>2. charged[g][k] = 0
        BY <1>2, <1>3, <2>1, <4>1, EarlyFacts DEF Behind
      <4>3. pos' = pos + 1 => Early(k) = 1
        BY <1>1, <2>1, <3>3 DEF Early
      <4>4. 2 * k <= pos' + Early(k)
        BY <1>1, <1>2, <4>1, <4>3, EarlyFacts
      <4> QED BY <2>1, <3>2, <4>2, <4>4
    <3>4. CASE pos % 2 # 0
      <4>1. k \in EarlyCuts
        BY <1>1, <2>1, <3>4
      <4>2. 2 * k = pos + 1
        BY <1>2, <2>1, <3>4 DEF LineAt
      <4>3. charged[g][k] = 0
        BY <1>2, <1>3, <2>1, <4>1, <4>2, EarlyFacts DEF Behind
      <4>4. 2 * k <= pos' + Early(k)
        BY <1>1, <1>2, <4>2, EarlyFacts
      <4> QED BY <2>1, <3>2, <4>3, <4>4
    <3> QED BY <3>3, <3>4
  <2>2. CASE charged' # charged /\ ~(g = fgen /\ k = LineAt(pos))
    BY <1>1, <1>2, <2>2, ChargeAt
  <2> QED BY <1>1, <2>1, <2>2
<1>5. ChargedOnce'
  <2>1. ASSUME NEW g \in Gens, NEW k \in LineNos
        PROVE  charged'[g][k] <= 1
    BY <1>2, <1>3, <1>4 DEF ChargedOnce
  <2> QED BY <1>1, <1>3, <2>1 DEF ChargedOnce
<1>6. fgen # cur => \A k \in LineNos : charged'[cur][k] = 0
  BY <1>2, <1>3, <1>4 DEF Untouched
<1>7. ASSUME NEW k \in LineNos, charged'[fgen][k] >= 1
      PROVE  2 * k <= pos' + Early(k) /\ pos' <= log[fgen]
  <2>1. CASE charged'[fgen][k] = charged[fgen][k]
    <3>1. 2 * k <= pos + Early(k) /\ k \in Nat /\ Early(k) \in {0, 1}
      BY <1>2, <1>3, <1>7, <2>1, EarlyFacts DEF Behind
    <3> QED BY <1>1, <1>2, <3>1
  <2> QED BY <1>1, <1>2, <1>4, <2>1
<1>8. ChargedBehind'
  BY <1>1, <1>6, <1>7 DEF ChargedBehind, Untouched, Behind
<1>9. Emptied'
  BY <1>1 DEF Emptied
<1> QED BY <1>5, <1>8, <1>9

(* After a script nothing is charged; after the month job, what was is in   *)
(* the history, where it was not before.                                    *)
LEMMA OnceScripts ==
  ASSUME CleanStops, OnceBase, OnceInv, RecountSql \/ MonthSql
  PROVE  ChargedOnce' /\ Emptied' /\ ChargedBehind'
<1>1. /\ charged' = Uncharged /\ hist' \in {hist, ToHistory}
      /\ cur' \in Gens /\ fgen' \in Gens /\ pc' \in {"reconf", "signal", "spin"}
  <2>1. cur \in Gens /\ fgen \in Gens
    BY DEF OnceBase, TypeInv, LogType, DaemonType
  <2>2. CASE RecountSql
    BY <2>1, <2>2, ScriptLeads DEF RecountSql, CleanStops, Monthly, logVars, fpVars
  <2>3. CASE MonthSql
    BY <2>1, <2>3, ScriptLeads DEF MonthSql, CleanStops, Monthly, logVars
  <2> QED BY <2>2, <2>3
<1>2. \A g \in Gens, k \in LineNos : charged'[g][k] = 0
  BY <1>1 DEF Uncharged
<1>3. ASSUME NEW g \in Gens, NEW k \in LineNos PROVE hist'[g][k] <= 1
  <2>1. charged[g][k] \in Nat /\ hist[g][k] \in Nat
    BY DEF OnceBase, TypeInv, LedgerType
  <2>2. charged[g][k] + hist[g][k] <= 1
    BY <2>1 DEF OnceInv, ChargedOnce, OnceBase, MonthInv, NoLineInTwoMonths
  <2> QED BY <1>1, <2>1, <2>2 DEF ToHistory
<1>4. ChargedOnce'
  BY <1>2, <1>3 DEF ChargedOnce
<1>5. Emptied' /\ ChargedBehind'
  BY <1>1, <1>2 DEF Emptied, ChargedBehind, Untouched, Behind
<1> QED BY <1>4, <1>5

(* squid and whoever truncates the log: a new file is empty of charges. *)
LEMMA OnceLog ==
  ASSUME OnceBase, OnceInv, Squid \/ Truncate
  PROVE  ChargedOnce' /\ Emptied' /\ ChargedBehind'
<1>1. /\ UNCHANGED <<pc, open, offset, pos, saved, charged, hist>>
      /\ \A g \in Gens : log[g] \in Nat /\ log'[g] \in Nat /\ log'[g] >= log[g]
  <2>1. log \in [Gens -> Nat] /\ cur \in Gens
    BY DEF OnceBase, TypeInv, LogType
  <2>2. CASE SquidWrite
    BY <2>1, <2>2 DEF SquidWrite, daemonVars, dbVars, fpVars
  <2>3. CASE SquidRename \/ SquidCreate \/ Truncate
    BY <2>1, <2>3 DEF SquidRename, SquidCreate, Truncate, daemonVars, dbVars, fpVars
  <2> QED BY <2>2, <2>3 DEF Squid
<1>2. /\ cur \in Nat /\ fgen \in Nat /\ saved \in Int /\ offset \in Int /\ pos \in Int
      /\ fgen \in Gens /\ cur \in Gens /\ \A g \in Gens : g \in Nat
      /\ LineNos \subseteq Nat
  BY GenFacts, BoundsAssumption
     DEF OnceBase, TypeInv, LogType, DaemonType, Offsets, Huge, LineNos
<1>3. \/ cur' = cur /\ fgen' = fgen /\ (present' => present)
      \/ cur' = cur + 1 /\ cur' \in Gens /\ fgen' \in {fgen, cur'}
  <2>1. CASE SquidWrite \/ SquidRename
    BY <2>1 DEF SquidWrite, SquidRename, daemonVars, fpVars
  <2>2. CASE SquidCreate \/ Truncate
    <3>1. cur < MaxGen
      BY <2>2 DEF SquidCreate, Truncate, OnceBase, TypeInv, LogType
    <3> QED BY <1>2, <2>2, <3>1, GenFacts DEF SquidCreate, Truncate, daemonVars, fpVars
  <2> QED BY <2>1, <2>2 DEF Squid
<1>4. ChargedOnce /\ Emptied /\ ChargedBehind
  BY DEF OnceInv
<1>5. ChargedOnce' /\ Emptied'
  BY <1>1, <1>4 DEF ChargedOnce, Emptied, Untouched
<1>6. \A g \in Gens, p \in Int : Behind(g, p) =>
        \A k \in LineNos : charged'[g][k] >= 1 => 2 * k <= p + Early(k) /\ p <= log'[g]
  <2> SUFFICES ASSUME NEW g \in Gens, NEW p \in Int, Behind(g, p),
                      NEW k \in LineNos, charged'[g][k] >= 1
               PROVE  2 * k <= p + Early(k) /\ p <= log'[g]
    OBVIOUS
  <2>1. 2 * k <= p + Early(k) /\ p <= log[g]
    BY <1>1 DEF Behind
  <2>2. log[g] \in Nat /\ log'[g] \in Nat /\ log'[g] >= log[g]
    BY <1>1
  <2> QED BY <2>1, <2>2
<1>7. CASE cur' = cur /\ fgen' = fgen /\ (present' => present)
  <2>1. ChargedBehind'
    BY <1>1, <1>2, <1>4, <1>6, <1>7 DEF ChargedBehind, Behind, Untouched
  <2> QED BY <1>5, <2>1
<1>8. CASE cur' = cur + 1 /\ cur' \in Gens /\ fgen' \in {fgen, cur'}
  <2>1. \A k \in LineNos : charged'[cur'][k] = 0
    <3>1. cur' \in Gens /\ cur' > cur
      BY <1>2, <1>8
    <3>2. \A k \in LineNos : charged[cur'][k] = 0
      BY <3>1 DEF OnceBase, MonthInv, FilesToCome
    <3> QED BY <1>1, <3>2
  <2>2. ChargedBehind'
    BY <1>1, <1>2, <1>4, <1>6, <1>8, <2>1 DEF ChargedBehind, Behind, Untouched
  <2> QED BY <1>5, <2>2
<1> QED BY <1>3, <1>7, <1>8

(* The other steps move positions, or the stream. *)
LEMMA OnceOther ==
  ASSUME CleanStops, OnceBase, OnceInv, [Next]_vars,
         ~ReadLine, ~ReadTorn, ~RecountSql, ~MonthSql, ~Squid, ~Truncate
  PROVE  ChargedOnce' /\ Emptied' /\ ChargedBehind'
<1>1. UNCHANGED <<log, cur, present, charged, hist>>
  <2>1. ~MonthCut
    BY DEF MonthCut, CleanStops, Monthly
  <2> QED BY <2>1, LedgerSteps, LogSteps DEF ledgerVars
<1>2. /\ cur \in Gens /\ saved \in Int /\ offset \in Offsets /\ pos \in Nat
      /\ log[cur] \in Nat /\ log[fgen] \in Nat
      /\ \A k \in LineNos : k \in Nat /\ k >= 1 /\ charged[cur][k] \in Nat
  BY BoundsAssumption
     DEF OnceBase, TypeInv, LogType, LedgerType, DaemonType, Offsets, Huge, LineNos
<1>3. Undisturbed /\ Emptied /\ ChargedBehind /\ ClosedStreamConfined
  BY DEF OnceInv, OnceBase
<1>4. ChargedOnce'
  BY <1>1 DEF OnceInv, ChargedOnce
<1> DEFINE Beh(g, p) == \A k \in LineNos : charged[g][k] >= 1 => 2 * k <= p + Early(k) /\ p <= log[g]
           Non(g) == \A k \in LineNos : charged[g][k] = 0
           None == \A g \in Gens : Non(g)
<1>5. /\ pc = "down" /\ present => Beh(cur, saved)
      /\ pc # "down" /\ fgen # cur => Non(cur)
      /\ pc \in {"top", "check", "signal", "clear", "size"} => Beh(fgen, offset)
      /\ pc \in {"read", "save"} => Beh(fgen, pos)
      /\ (pc = "reconf" \/ (pc # "down" /\ ~open)) => None
  BY <1>3 DEF ChargedBehind, Emptied, Behind, Untouched
<1>6. /\ \A p : Non(cur) => Beh(cur, p)
      /\ \A p : \A g \in Gens : None => Beh(g, p)
      /\ None => Non(cur)
  BY <1>2
<1>7. /\ Beh(cur, offset) /\ Above(offset, log[cur]) => Non(cur)
      /\ Beh(cur, Huge) => Non(cur)
  BY <1>2, EarlyFacts DEF Above, Huge, Offsets
<1>8. SUFFICES
        /\ pc' = "down" /\ present => Beh(cur, saved')
        /\ pc' # "down" /\ fgen' # cur => Non(cur)
        /\ pc' \in {"top", "check", "signal", "clear", "size"} => Beh(fgen', offset')
        /\ pc' \in {"read", "save"} => Beh(fgen', pos')
        /\ (pc' = "reconf" \/ (pc' # "down" /\ ~open')) => None
  BY <1>1, <1>4 DEF ChargedBehind, Emptied, Behind, Untouched
<1>9. fgen \in Gens
  BY DEF OnceBase, TypeInv, DaemonType
<1> HIDE DEF Beh, Non, None
<1> USE <1>2, <1>3, <1>5, <1>6, <1>9 DEF Undisturbed, ClosedStreamConfined,
        logVars, fpVars, dbVars
<1>10. CASE Start
  BY <1>10 DEF Start
<1>11. CASE TopPass
  BY <1>11 DEF TopPass, NextCheck
<1>12. CASE TopDoubleClose \/ TopMissing
  BY <1>12 DEF TopDoubleClose, TopMissing, Exit
<1>13. CASE TopReopen
  <2>1. /\ fgen' = cur /\ open' /\ pc = "top" /\ pc' \in {"check", "signal"}
        /\ offset' = IF Above(offset, log[cur]) THEN 0 ELSE offset
    BY <1>13 DEF TopReopen, NextCheck
  <2> QED BY <1>7, <2>1
<1>14. CASE CheckQuiet \/ CheckReconf
  <2>1. pc' \in {"signal", "spin"}
    BY <1>14, CheckEndsLeads, ReconfigureLeads DEF CheckQuiet, CheckReconf
  <2> QED BY <1>14, <2>1 DEF CheckQuiet, CheckReconf
<1>15. CASE CheckRecount \/ SigUsr2
  BY <1>15 DEF CheckRecount, SigUsr2, RecountBegin
<1>16. CASE SigNone \/ SigClear
  BY <1>16 DEF SigNone, SigClear
<1>17. CASE SigUsr1
  BY <1>17 DEF SigUsr1, RotateBegin
<1>18. CASE SigTerm
  <2>1. pc = "signal" /\ pc' = "down" /\ open /\ saved' = pos
    BY <1>18 DEF SigTerm, Exit
  <2>2. Beh(cur, pos)
    BY <1>7, <2>1
  <2> QED BY <2>1, <2>2
<1>19. CASE Reconf
  <2>1. pc' \in {"clear", "spin"}
    BY <1>19, ReconfigureLeads DEF Reconf
  <2> QED BY <1>19, <2>1 DEF Reconf
<1>20. CASE SizeSmaller
  BY <1>20 DEF SizeSmaller
<1>21. CASE SizeLarger
  <2>1. pos' = offset
    BY <1>21 DEF SizeLarger
  <2> QED BY <1>21, <2>1 DEF SizeLarger
<1>22. CASE SizeSame
  BY <1>22 DEF SizeSame
<1>23. CASE SizeClosed
  BY <1>23 DEF SizeClosed, Exit
<1>24. CASE ReadEof \/ ReadClosed \/ ReadDone
  BY <1>24 DEF ReadEof, ReadClosed, ReadDone
<1>25. CASE Save \/ SaveRefused
  BY <1>25 DEF Save, SaveRefused, Exit
<1>26. CASE \E s \in Signals : Signal(s)
  BY <1>26 DEF Signal
<1>27. CASE UNCHANGED vars
  BY <1>27 DEF vars
<1> QED
  BY <1>10, <1>11, <1>12, <1>13, <1>14, <1>15, <1>16, <1>17, <1>18, <1>19, <1>20,
     <1>21, <1>22, <1>23, <1>24, <1>25, <1>26, <1>27, CleanSteps DEF CleanNext

LEMMA OnceAlways == ASSUME CleanStops PROVE Spec => []OnceInv
<1>1. Monthly
  BY DEF CleanStops
<1>2. OnceBase /\ OnceInv /\ [Next]_vars => OnceInv'
  BY UndisturbedNext, OnceRead, OnceScripts, OnceLog, OnceOther DEF OnceInv, OnceBase
<1>3. TypeInv /\ MonthInv /\ ClosedStreamConfined => OnceBase
  BY DEF OnceBase
<1> QED
  BY <1>1, <1>2, <1>3, OnceInit, TypeInvAlways, MonthAlways, ClosedConfined, PTL DEF Spec

(* A daemon that TERM stops and somebody starts again, and that is told to  *)
(* reconfigure, to recount or to close the month at any moment, charges no  *)
(* line twice, over all months, also when statements fail, squid writes     *)
(* lines in pieces, and the log is rotated or truncated under the daemon:   *)
(* the position main() stores on its way out is exactly that of the last    *)
(* line it charged, squid_recount() clears what is about to be charged      *)
(* again, and the month's lines are in a file that is not read any more.    *)
THEOREM BilledOnce == ASSUME CleanStops PROVE Spec => []NoDoubleCharge
<1>1. ASSUME TypeInv, OnceInv, NoLineInTwoMonths PROVE NoDoubleCharge
  <2> SUFFICES ASSUME NEW g \in Gens, NEW k \in LineNos
               PROVE  charged[g][k] + hist[g][k] <= 1
    BY DEF NoDoubleCharge, Billed
  <2>1. charged[g][k] \in Nat /\ hist[g][k] \in Nat
    BY <1>1 DEF TypeInv, LedgerType
  <2> QED BY <1>1, <2>1 DEF OnceInv, ChargedOnce, NoLineInTwoMonths
<1>2. TypeInv /\ OnceInv /\ NoLineInTwoMonths => NoDoubleCharge
  BY <1>1
<1>3. Monthly
  BY DEF CleanStops
<1> QED BY <1>2, <1>3, OnceAlways, MonthsApart, TypeInvAlways, PTL

----------------------------------------------------------------------------
(* The daemon implements Billing.  While nobody rotates the log there is    *)
(* one file: a line is written when squid completed it, and billed as often *)
(* as it is in users.used.                                                  *)
OneLog ==
  /\ cur = 0 /\ fgen = 0 /\ log[0] <= 2 * MaxLines
  /\ \A k \in LineNos : hist[0][k] = 0

LEMMA OneLogInit == Init => OneLog
<1>1. Init => \A k \in LineNos : hist[0][k] = 0
  BY GenFacts DEF Init, Uncharged
<1>2. Init => log[0] = 0
  BY GenFacts DEF Init
<1> QED BY <1>1, <1>2, BoundsAssumption DEF Init, OneLog

(* What squid can do there. *)
LEMMA OneLogWrites ==
  ASSUME Recoverable, TypeInv, CoveredInv, OneLog, [Next]_vars, log' # log \/ cur' # cur
  PROVE  /\ SquidWrite /\ log' = [log EXCEPT ![0] = @ + 2]
         /\ log[0] \in Nat /\ log[0] % 2 = 0 /\ log[0] < 2 * MaxLines
<1>1. present /\ Recoverable /\ OwnRotations
  BY DEF CoveredInv, Following, Recoverable
<1>2. SquidWrite
  BY <1>1, LogSteps
     DEF Squid, SquidRename, SquidCreate, Truncate, OwnRotations
<1>3. log[0] \in Nat /\ log[0] % 2 = 0
  BY GenFacts DEF TypeInv, LogType, CoveredInv, WholeLines, Even
<1> QED BY <1>1, <1>2, <1>3 DEF SquidWrite, OwnRotations, OneLog

LEMMA OneLogNext ==
  ASSUME Recoverable, TypeInv, CoveredInv, OneLog, [Next]_vars
  PROVE  OneLog'
<1>1. cur' = 0 /\ log'[0] <= 2 * MaxLines
  <2>1. CASE log' # log \/ cur' # cur
    <3>1. log'[0] = log[0] + 2
      BY <2>1, OneLogWrites, GenFacts DEF TypeInv, LogType
    <3>2. log[0] \in Nat /\ log[0] % 2 = 0 /\ log[0] < 2 * MaxLines /\ cur' = cur
      BY <2>1, OneLogWrites DEF SquidWrite
    <3> QED BY <3>1, <3>2, BoundsAssumption DEF OneLog
  <2> QED BY <2>1 DEF OneLog
<1>2. ~MonthSql
  BY DEF MonthSql, Slept, CoveredInv, Following, Away, Recoverable
<1>3. hist' = hist
  BY <1>2, LedgerSteps, NotCut
     DEF ledgerVars, RecountSql, ReadLine, ReadTorn, CoveredInv, Recoverable
<1>4. fgen' = 0
  <2>1. ~Truncate
    BY DEF Truncate, Recoverable, OwnRotations
  <2> QED
    BY <1>1, <2>1, StreamSteps DEF StreamStays, StreamOpened, StreamLost, OneLog
<1> QED BY <1>1, <1>3, <1>4 DEF OneLog

LEMMA OneLogAlways == ASSUME Recoverable PROVE Spec => []OneLog
<1>1. OwnRotations
  BY DEF Recoverable
<1>2. TypeInv /\ CoveredInv /\ OneLog /\ [Next]_vars => OneLog'
  BY OneLogNext
<1> QED BY <1>1, <1>2, OneLogInit, CoveredAlways, TypeInvAlways, PTL DEF Spec

LEMMA LedgerInit == Init => Ledger!Init
<1> SUFFICES ASSUME Init PROVE Ledger!Init
  OBVIOUS
<1>1. log[0] = 0 /\ charged[0] = [k \in LineNos |-> 0]
  BY GenFacts DEF Init, Uncharged
<1>2. 0 \div 2 = 0
  OBVIOUS
<1> QED BY <1>1, <1>2 DEF Ledger!Init, Ledger!LineNos, LineNos

(* A whole line is completed. *)
LEMMA LedgerWrite ==
  ASSUME Recoverable, TypeInv, CoveredInv, OneLog, [Next]_vars, log' # log
  PROVE  Ledger!Write
<1>1. /\ SquidWrite /\ log'[0] = log[0] + 2
      /\ log[0] \in Nat /\ log[0] % 2 = 0 /\ log[0] < 2 * MaxLines
  BY OneLogWrites, GenFacts DEF TypeInv, LogType
<1>2. charged' = charged
  BY <1>1 DEF SquidWrite, dbVars
<1>3. log[0] \div 2 < MaxLines /\ (log[0] + 2) \div 2 = log[0] \div 2 + 1
  BY <1>1, BoundsAssumption
<1> QED BY <1>1, <1>2, <1>3 DEF Ledger!Write

(* A line is charged: it has been written, and those before it are charged. *)
LEMMA LedgerBill ==
  ASSUME Recoverable, TypeInv, CoveredInv, OneLog, ReadLine, link, Charge
  PROVE  /\ LineAt(pos) \in LineNos /\ 2 * LineAt(pos) = pos + 2
         /\ Ledger!InTurn(LineAt(pos))
         /\ charged'[0] = [charged[0] EXCEPT ![LineAt(pos)] = @ + 1]
         /\ log' = log
<1>1. /\ pc = "read" /\ open /\ fgen = 0 /\ 0 \in Gens /\ log' = log
      /\ pos + 2 <= log[0] /\ log[0] <= 2 * MaxLines
  BY GenFacts DEF ReadLine, Whole, OneLog, logVars
<1>2. pos \in Nat /\ pos % 2 = 0 /\ log[0] \in Nat /\ log[0] % 2 = 0 /\ MaxLines \in Nat
  BY <1>1, BoundsAssumption
     DEF TypeInv, LogType, DaemonType, CoveredInv, WholeLines, Even
<1>3. 2 * LineAt(pos) = pos + 2 /\ LineAt(pos) \in Nat /\ LineAt(pos) >= 1
  BY <1>2 DEF LineAt
<1>4. LineAt(pos) <= MaxLines /\ LineAt(pos) <= log[0] \div 2
  BY <1>1, <1>2, <1>3
<1>5. ASSUME NEW j \in 1..(LineAt(pos) - 1) PROVE charged[0][j] >= 1
  <2>1. j \in LineNos /\ 2 * j <= pos
    BY <1>2, <1>3, <1>4 DEF LineNos
  <2>2. Covered(0, pos)
    BY <1>1 DEF CoveredInv, AllCovered, PosCounts
  <2>3. hist[0][j] = 0 /\ charged[0][j] \in Nat
    BY <1>1, <2>1 DEF OneLog, TypeInv, LedgerType
  <2> QED BY <2>1, <2>2, <2>3 DEF Covered, Billed
<1>6. charged'[0] = [charged[0] EXCEPT ![LineAt(pos)] = @ + 1]
  BY <1>1 DEF Charge, OneMore, TypeInv, LedgerType
<1> QED BY <1>1, <1>2, <1>3, <1>4, <1>5, <1>6 DEF Ledger!InTurn, LineNos

(* What a step that does not write a line can do to the ledger. *)
LEMMA LedgerStep ==
  ASSUME Recoverable, TypeInv, CoveredInv, OneLog, [Next]_vars, log' = log
  PROVE  \/ Ledger!Clear
         \/ ReadLine /\ link /\ Charge
         \/ UNCHANGED Ledger!billVars
<1>1. ~MonthSql /\ ~ReadTorn
  BY NeverTorn DEF MonthSql, Slept, CoveredInv, Following, Away, Recoverable
<1>2. CASE RecountSql
  <2>1. charged' \in {charged, Uncharged} /\ Uncharged[0] = [k \in LineNos |-> 0]
    BY <1>2, GenFacts DEF RecountSql, Uncharged
  <2>2. charged'[0] = charged[0] \/ charged'[0] = [k \in LineNos |-> 0]
    BY <2>1
  <2> QED BY <2>2 DEF Ledger!Clear, Ledger!billVars, Ledger!LineNos, LineNos
<1>3. CASE ReadLine
  BY <1>3 DEF ReadLine, Ledger!billVars
<1>4. CASE UNCHANGED ledgerVars
  BY <1>4 DEF ledgerVars, Ledger!billVars
<1> QED BY <1>1, <1>2, <1>3, <1>4, LedgerSteps, NotCut DEF CoveredInv, Recoverable

(* While nobody rotates the log, whatever stops, signals or disconnects the *)
(* daemon: lines are billed in the order they were written, without a gap,  *)
(* and between two recounts none is taken back.                             *)
THEOREM BillsInTurn == ASSUME Recoverable PROVE Spec => Ledger!SafeLoose
<1>1. OwnRotations
  BY DEF Recoverable
<1>2. ASSUME TypeInv, CoveredInv, OneLog, [Next]_vars
      PROVE  [Ledger!NextLoose]_(Ledger!billVars)
  <2>1. CASE log' # log
    BY <1>2, <2>1, LedgerWrite DEF Ledger!NextLoose, Ledger!NextOnce
  <2>2. CASE ReadLine /\ link /\ Charge
    <3>1. LineAt(pos) \in Ledger!LineNos /\ Ledger!BillAgain(LineAt(pos))
      BY <1>2, <2>2, LedgerBill DEF Ledger!BillAgain, Ledger!LineNos, LineNos
    <3> QED BY <3>1 DEF Ledger!NextLoose
  <2> QED
    BY <1>2, <2>1, <2>2, LedgerStep DEF Ledger!NextLoose, Ledger!NextOnce
<1>3. TypeInv /\ CoveredInv /\ OneLog /\ [Next]_vars => [Ledger!NextLoose]_(Ledger!billVars)
  BY <1>2
<1> QED
  BY <1>1, <1>3, LedgerInit, OneLogAlways, CoveredAlways, TypeInvAlways, PTL
     DEF Spec, Ledger!SafeLoose

(* And while only TERM ends the daemon, each line is billed once.           *)
THEOREM BillsOnceInTurn ==
  ASSUME Recoverable, CleanStops
  PROVE  Spec => Ledger!SafeOnce
<1>1. OwnRotations
  BY DEF Recoverable
<1>2. ASSUME TypeInv, CoveredInv, OnceInv, OneLog, [Next]_vars
      PROVE  [Ledger!NextOnce]_(Ledger!billVars)
  <2>1. CASE log' # log
    BY <1>2, <2>1, LedgerWrite DEF Ledger!NextOnce
  <2>2. CASE ReadLine /\ link /\ Charge
    <3> DEFINE k == LineAt(pos)
    <3>1. /\ k \in LineNos /\ 2 * k = pos + 2 /\ Ledger!InTurn(k)
          /\ charged'[0] = [charged[0] EXCEPT ![k] = @ + 1] /\ log' = log
      BY <1>2, <2>2, LedgerBill
    <3>2. charged[0][k] = 0
      <4>1. Behind(0, pos)
        BY <1>2, <2>2 DEF OnceInv, ChargedBehind, OneLog, ReadLine
      <4>2. charged[0][k] \in Nat /\ pos \in Nat
        BY <1>2, <3>1, GenFacts DEF TypeInv, LedgerType, DaemonType
      <4>3. charged[0][k] >= 1 => pos + 2 <= pos + 1
        BY <3>1, <4>1, <4>2, EarlyFacts DEF Behind
      <4> QED BY <4>2, <4>3
    <3> HIDE DEF k
    <3>3. k \in Ledger!LineNos /\ Ledger!BillNew(k)
      BY <3>1, <3>2 DEF Ledger!BillNew, Ledger!LineNos, LineNos
    <3> QED BY <3>3 DEF Ledger!NextOnce
  <2> QED BY <1>2, <2>1, <2>2, LedgerStep DEF Ledger!NextOnce
<1>3. TypeInv /\ CoveredInv /\ OnceInv /\ OneLog /\ [Next]_vars
        => [Ledger!NextOnce]_(Ledger!billVars)
  BY <1>2
<1> QED
  BY <1>1, <1>3, LedgerInit, OneLogAlways, OnceAlways, CoveredAlways,
     TypeInvAlways, PTL DEF Spec, Ledger!SafeOnce
=============================================================================
