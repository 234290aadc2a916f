-------------------------- MODULE RiskManagerProofs --------------------------
(***************************************************************************)
(* Proofs about RiskManager, for all values of its constants.              *)
(*                                                                         *)
(* The daily figures in memory and the rows on disk are kept in step by    *)
(* facts about dates that no single operation states: the day of the       *)
(* figures never runs ahead of the clock, and no row is dated after it.    *)
(* A write that fails half-way repeats rows; the claims about PnL end      *)
(* there, those about entries do not.                                      *)
(***************************************************************************)
EXTENDS RiskManager, TLAPS

-----------------------------------------------------------------------------
(* Tallies of rows *)

\* Adding tallies gives a tally, field by field.
LEMMA PlusRows ==
  ASSUME NEW a \in Rows, NEW b \in Rows
  PROVE  /\ Plus(a, b) \in Rows
         /\ Plus(a, b).entries = a.entries + b.entries
         /\ Plus(a, b).pnl = a.pnl + b.pnl
BY DEF Plus, Rows

\* Adding no rows changes nothing.
LEMMA PlusNoRows ==
  ASSUME NEW a \in Rows
  PROVE  NoRows \in Rows /\ Plus(a, NoRows) = a /\ Plus(NoRows, a) = a
BY DEF Plus, Rows, NoRows

\* A log that gets more rows of a day: only that day's tally changes.
LEMMA AddRowsAt ==
  ASSUME NEW log \in Log, NEW day \in Days, NEW rows \in Rows
  PROVE  /\ AddRows(log, day, rows) \in Log
         /\ AddRows(log, day, rows)[day] = Plus(log[day], rows)
         /\ \A d \in Days \ {day} : AddRows(log, day, rows)[d] = log[d]
BY PlusRows DEF AddRows, Log

\* Two logs merged: every day's tallies are added.
LEMMA MergeLogsAt ==
  ASSUME NEW log1 \in Log, NEW log2 \in Log
  PROVE  /\ MergeLogs(log1, log2) \in Log
         /\ \A d \in Days : MergeLogs(log1, log2)[d] = Plus(log1[d], log2[d])
BY PlusRows DEF MergeLogs, Log

\* The empty log.
LEMMA NoLogAt == NoLog \in Log /\ \A d \in Days : NoLog[d] = NoRows
BY DEF NoLog, Log, NoRows, Rows

\* Tallies with equal numbers are equal.
LEMMA SameRows ==
  ASSUME NEW a \in Rows, NEW b \in Rows, a.entries = b.entries, a.pnl = b.pnl
  PROVE  a = b
BY DEF Rows

\* What the rows of a day in a log are.
LEMMA LogAt ==
  ASSUME NEW log \in Log, NEW d \in Days
  PROVE  log[d] \in Rows /\ log[d].entries \in Nat /\ log[d].pnl \in Int
BY DEF Log, Rows

\* Every beginning of the buffer is a log.
LEMMA FirstRowsType ==
  ASSUME tradeLogBuffer \in Seq(Log), NEW n \in 0 .. Len(tradeLogBuffer)
  PROVE  FirstRows(n) \in Log
<1>1. CASE n = 0
  BY <1>1, NoLogAt DEF FirstRows
<1>2. CASE n # 0
  <2>1. n \in 1 .. Len(tradeLogBuffer)
    BY <1>2
  <2>2. tradeLogBuffer[n] \in Log
    BY <2>1
  <2> QED
    BY <1>2, <2>2 DEF FirstRows
<1> QED
  BY <1>1, <1>2

\* And so is the whole of it.
LEMMA BufferedType ==
  ASSUME tradeLogBuffer \in Seq(Log)
  PROVE  Len(tradeLogBuffer) \in Nat /\ Buffered \in Log
<1>1. Len(tradeLogBuffer) \in Nat /\ Len(tradeLogBuffer) \in 0 .. Len(tradeLogBuffer)
  OBVIOUS
<1> QED
  BY <1>1, FirstRowsType DEF Buffered

\* Nothing is buffered.
LEMMA EmptyBuffer ==
  /\ tradeLogBuffer = <<>> => Buffered = NoLog /\ Len(tradeLogBuffer) = 0
  /\ tradeLogBuffer' = <<>> => Buffered' = NoLog /\ Len(tradeLogBuffer)' = 0
BY DEF Buffered, FirstRows

\* One more row in the buffer: its beginnings stay, the whole gets the row.
LEMMA OneMoreRow ==
  ASSUME tradeLogBuffer \in Seq(Log), NEW day \in Days, NEW rows \in Rows,
         tradeLogBuffer' = Append(tradeLogBuffer, AddRows(Buffered, day, rows))
  PROVE  /\ tradeLogBuffer' \in Seq(Log)
         /\ Buffered' = AddRows(Buffered, day, rows)
         /\ \A n \in 0 .. Len(tradeLogBuffer)' :
              FirstRows(n)' = IF n \in 0 .. Len(tradeLogBuffer)
                              THEN FirstRows(n) ELSE Buffered'
<1> DEFINE more == AddRows(Buffered, day, rows)
           len == Len(tradeLogBuffer)
<1>1. len \in Nat /\ more \in Log
  BY BufferedType, AddRowsAt
<1> HIDE DEF more
<1>2. tradeLogBuffer' = Append(tradeLogBuffer, more)
  BY DEF more
<1>3. /\ tradeLogBuffer' \in Seq(Log) /\ Len(tradeLogBuffer') = len + 1
      /\ tradeLogBuffer'[len + 1] = more
      /\ \A n \in 1 .. len : tradeLogBuffer'[n] = tradeLogBuffer[n]
  BY <1>1, <1>2
<1> HIDE DEF len
<1>4. Buffered' = more
  BY <1>1, <1>3 DEF Buffered, FirstRows
<1>5. ASSUME NEW n \in 0 .. Len(tradeLogBuffer)'
      PROVE  FirstRows(n)' = IF n \in 0 .. len THEN FirstRows(n) ELSE Buffered'
  <2>1. CASE n = 0
    BY <1>1, <2>1 DEF FirstRows
  <2>2. CASE n \in 1 .. len
    BY <1>1, <1>3, <2>2 DEF FirstRows
  <2>3. CASE n = len + 1
    BY <1>1, <1>3, <1>4, <2>3 DEF FirstRows
  <2> QED
    BY <1>1, <1>3, <2>1, <2>2, <2>3
<1> QED
  BY <1>3, <1>4, <1>5 DEF more, len

-----------------------------------------------------------------------------
(* Types *)

\* The day the figures are accounted to is a day.
LEMMA NowIsADay == TypeOK => Now \in Days
BY DEF TypeOK, Now, Days, NoDay

\* The figures of today after a possible roll.
LEMMA FiguresToday == TypeOK => CountToday \in Nat /\ PnlToday \in Int
BY DEF TypeOK, CountToday, PnlToday

\* A market with no position.
LEMMA NoPositionType == NoPosition \in Position
BY ConfigAssumption DEF NoPosition, Position

\* What is left of a position after a sale of no more than it holds.
LEMMA ShrunkType ==
  ASSUME NEW p \in Position, NEW closed \in 1 .. p.quantity
  PROVE  Shrunk(p, closed) \in Position
BY NoPositionType DEF Shrunk, Position

\* The values of a process that does not exist.
LEMMA EmptyMemory ==
  /\ 0 \in Days /\ 0 \in 0 .. MaxRestarts
  /\ [m \in Markets |-> NoPosition] \in [Markets -> Position]
BY NoPositionType, ConfigAssumption DEF Days

\* The empty books are typed.
LEMMA InitTypeOK == Init => TypeOK
<1> SUFFICES ASSUME Init
             PROVE  TypeOK
  OBVIOUS
<1>1. clock \in Days /\ today \in Days /\ restarts \in 0 .. MaxRestarts
  BY EmptyMemory DEF Init
<1>2. alive \in BOOLEAN
  BY DEF Init
<1>3. openPositions \in [Markets -> Position]
  BY EmptyMemory DEF Init
<1>4. tradeLogBuffer \in Seq(Log) /\ tradeLog \in Log /\ history \in Log /\ lost \in Log
  BY NoLogAt DEF Init
<1>6. failedWrites \in 0 .. MaxFailedWrites
  BY ConfigAssumption DEF Init
<1>5. cachedNow \in Days \cup {NoDay} /\ dailyTradeCount \in Nat /\ dailyRealizedPnl \in Int
  BY DEF Init
<1> QED
  BY <1>1, <1>2, <1>3, <1>4, <1>5, <1>6 DEF TypeOK

\* What the properties need to know of a step that logs rows.
Logs(rows) ==
  /\ alive /\ alive'
  /\ today' = Now /\ cachedNow' = Now
  /\ tradeLogBuffer' = BufferRow(rows)
  /\ history' = AddRows(history, Now, rows)
  /\ UNCHANGED <<clock, tradeLog, failedWrites, lost>>

\* An entry logs a row that is an entry.
LEMMA EnterLogs ==
  ASSUME NEW m \in Markets, NEW side, NEW q, NEW p, Enter(m, side, q, p)
  PROVE  /\ [entries |-> 1, pnl |-> 0] \in Rows
         /\ Logs([entries |-> 1, pnl |-> 0])
         /\ Now = today /\ CountToday = dailyTradeCount /\ PnlToday = dailyRealizedPnl
         /\ dailyTradeCount' = dailyTradeCount + 1
         /\ dailyRealizedPnl' = dailyRealizedPnl
BY DEF Enter, RecordEntry, Now, CountToday, PnlToday, Logs, Rows

\* An exit logs a row with its PnL.
LEMMA ExitLogs ==
  ASSUME TypeOK, NEW m \in Markets, NEW q \in Quantities, NEW x \in ExitPrices, Exit(m, q, x)
  PROVE  \E pnl \in Int : /\ [entries |-> 0, pnl |-> pnl] \in Rows
                          /\ Logs([entries |-> 0, pnl |-> pnl])
                          /\ dailyTradeCount' = CountToday
                          /\ dailyRealizedPnl' = PnlToday + pnl
<1> DEFINE pnl == compute_pnl_cents(openPositions[m].entryPrice, x, q)
<1>1. openPositions[m] \in Position
  BY DEF TypeOK
<1>2. pnl \in Int
  BY <1>1, ConfigAssumption DEF compute_pnl_cents, Position, ExitPrices
<1> HIDE DEF pnl
<1>3. [entries |-> 0, pnl |-> pnl] \in Rows
  BY <1>2 DEF Rows
<1>4. /\ Logs([entries |-> 0, pnl |-> pnl])
      /\ dailyTradeCount' = CountToday /\ dailyRealizedPnl' = PnlToday + pnl
  BY DEF Exit, RecordExit, Logs, pnl
<1> QED
  BY <1>2, <1>3, <1>4

\* A logged row reaches the buffer and the history, on the day being worked in.
LEMMA LoggedAt ==
  ASSUME TypeOK, NEW rows \in Rows, Logs(rows)
  PROVE  /\ Now \in Days
         /\ tradeLogBuffer' \in Seq(Log) /\ history' \in Log
         /\ Buffered'[Now] = Plus(Buffered[Now], rows)
         /\ history'[Now] = Plus(history[Now], rows)
         /\ \A d \in Days \ {Now} : /\ Buffered'[d] = Buffered[d]
                                    /\ history'[d] = history[d]
<1>1. Now \in Days
  BY NowIsADay
<1>2. tradeLogBuffer' \in Seq(Log) /\ Buffered' = AddRows(Buffered, Now, rows)
  BY <1>1, OneMoreRow DEF Logs, BufferRow, TypeOK
<1>3. Buffered \in Log /\ history \in Log
  BY BufferedType DEF TypeOK
<1> QED
  BY <1>1, <1>2, <1>3, AddRowsAt DEF Logs

\* A flush that raises leaves a log with no fewer entries, the same one as long
\* as no write has failed, and dates nothing that the buffer does not date.
LEMMA FlushFailsAt ==
  ASSUME TypeOK, FlushFails
  PROVE  /\ tradeLog' \in Log
         /\ failedWrites' \in 0 .. MaxFailedWrites
         /\ failedWrites' = 0 => failedWrites = 0 /\ tradeLog' = tradeLog
         /\ \A d \in Days : /\ tradeLog'[d].entries \in Nat
                            /\ tradeLog'[d].entries >= tradeLog[d].entries
         /\ \A d \in Days :
              /\ tradeLog[d] = NoRows
              /\ \A n \in 0 .. Len(tradeLogBuffer) : FirstRows(n)[d] = NoRows
              => tradeLog'[d] = NoRows
<1>t. tradeLog \in Log /\ failedWrites \in Nat /\ failedWrites <= MaxFailedWrites
  BY ConfigAssumption DEF TypeOK
<1>1. CASE UNCHANGED <<tradeLog, failedWrites>>
  BY <1>1, <1>t, LogAt DEF TypeOK
<1>2. CASE /\ failedWrites < MaxFailedWrites
           /\ failedWrites' = failedWrites + 1
           /\ \E n \in 0 .. Len(tradeLogBuffer) : tradeLog' = MergeLogs(tradeLog, FirstRows(n))
  <2>1. PICK n \in 0 .. Len(tradeLogBuffer) : tradeLog' = MergeLogs(tradeLog, FirstRows(n))
    BY <1>2
  <2> DEFINE first == FirstRows(n)
  <2>2. first \in Log
    BY FirstRowsType DEF TypeOK
  <2> HIDE DEF first
  <2>3. tradeLog' \in Log /\ \A d \in Days : tradeLog'[d] = Plus(tradeLog[d], first[d])
    BY <1>t, <2>1, <2>2, MergeLogsAt DEF first
  <2>4. \A d \in Days : /\ tradeLog'[d].entries \in Nat
                       /\ tradeLog'[d].entries >= tradeLog[d].entries
    <3> SUFFICES ASSUME NEW d \in Days
                 PROVE  /\ tradeLog'[d].entries \in Nat
                        /\ tradeLog'[d].entries >= tradeLog[d].entries
      OBVIOUS
    <3>1. /\ tradeLog[d] \in Rows /\ tradeLog[d].entries \in Nat
          /\ first[d] \in Rows /\ first[d].entries \in Nat
      BY <1>t, <2>2, LogAt
    <3>2. tradeLog'[d].entries = tradeLog[d].entries + first[d].entries
      BY <2>3, <3>1, PlusRows
    <3> QED
      BY <3>1, <3>2
  <2>5. ASSUME NEW d \in Days, tradeLog[d] = NoRows, first[d] = NoRows
        PROVE  tradeLog'[d] = NoRows
    <3>1. NoRows \in Rows
      BY DEF NoRows, Rows
    <3> QED
      BY <2>3, <2>5, <3>1, PlusNoRows
  <2>6. /\ failedWrites' \in 0 .. MaxFailedWrites
        /\ failedWrites' = 0 => failedWrites = 0 /\ tradeLog' = tradeLog
    BY <1>2, <1>t, ConfigAssumption
  <2> QED
    BY <2>3, <2>4, <2>5, <2>6 DEF first
<1> QED
  BY <1>1, <1>2 DEF FlushFails

\* A flush that succeeds adds the buffer's rows to those of the file.
LEMMA FlushedAt ==
  ASSUME TypeOK, tradeLog' = MergeLogs(tradeLog, Buffered)
  PROVE  /\ tradeLog' \in Log
         /\ \A d \in Days : /\ tradeLog'[d] = Plus(tradeLog[d], Buffered[d])
                            /\ tradeLog'[d].entries = tradeLog[d].entries + Buffered[d].entries
                            /\ tradeLog'[d].pnl = tradeLog[d].pnl + Buffered[d].pnl
<1>1. tradeLog \in Log /\ Buffered \in Log
  BY BufferedType DEF TypeOK
<1>2. tradeLog' \in Log /\ \A d \in Days : tradeLog'[d] = Plus(tradeLog[d], Buffered[d])
  BY <1>1, MergeLogsAt
<1> QED
  BY <1>1, <1>2, LogAt, PlusRows

\* Rows lost with a process are added to those lost before.
LEMMA LostAt ==
  ASSUME TypeOK, lost' = MergeLogs(lost, Buffered)
  PROVE  /\ lost' \in Log
         /\ \A d \in Days : /\ lost'[d].entries = lost[d].entries + Buffered[d].entries
                            /\ lost'[d].pnl = lost[d].pnl + Buffered[d].pnl
<1>1. lost \in Log /\ Buffered \in Log
  BY BufferedType DEF TypeOK
<1>2. lost' \in Log /\ \A d \in Days : lost'[d] = Plus(lost[d], Buffered[d])
  BY <1>1, MergeLogsAt
<1> QED
  BY <1>1, <1>2, LogAt, PlusRows

\* Every operation keeps the types.
LEMMA NextTypeOK == TypeOK /\ [Next]_vars => TypeOK'
<1> SUFFICES ASSUME TypeOK, [Next]_vars
             PROVE  TypeOK'
  OBVIOUS
<1>n. Now \in Days /\ CountToday \in Nat /\ PnlToday \in Int
  BY NowIsADay, FiguresToday
<1>e. <<>> \in Seq(Log)
  OBVIOUS
<1>1. CASE Start
  <2>1. tradeLog[clock] \in Rows /\ NoRows \in Rows
    BY PlusNoRows DEF TypeOK, Log, Days, Rows, NoRows
  <2>2. dailyTradeCount' \in Nat /\ dailyRealizedPnl' \in Int
    BY <1>1, <2>1 DEF Start, Rows
  <2> QED
    BY <1>1, <1>e, <2>2, EmptyMemory, ConfigAssumption DEF Start, TypeOK, NoDay
<1>2. CASE alive /\ GetCurrentDatetime
  BY <1>2, <1>n DEF GetCurrentDatetime, TypeOK
<1>3. CASE alive /\ ResetDailyIfNeeded
  BY <1>3, <1>n DEF ResetDailyIfNeeded, TypeOK
<1>4. ASSUME NEW m \in Markets, NEW side \in Sides, NEW q \in Quantities,
             NEW p \in Prices, Enter(m, side, q, p)
      PROVE  TypeOK'
  <2>1. [side |-> side, quantity |-> q, entryPrice |-> p] \in Position
    BY ConfigAssumption DEF Position, Prices
  <2>2. tradeLogBuffer' \in Seq(Log) /\ history' \in Log
    BY <1>4, EnterLogs, LoggedAt
  <2> QED
    BY <1>4, <1>n, <2>1, <2>2 DEF Enter, RecordEntry, TypeOK
<1>5. ASSUME NEW m \in Markets, NEW q \in Quantities, NEW x \in ExitPrices, Exit(m, q, x)
      PROVE  TypeOK'
  <2>1. PICK pnl \in Int : /\ [entries |-> 0, pnl |-> pnl] \in Rows
                           /\ Logs([entries |-> 0, pnl |-> pnl])
                           /\ dailyRealizedPnl' = PnlToday + pnl
    BY <1>5, ExitLogs
  <2>2. tradeLogBuffer' \in Seq(Log) /\ history' \in Log
    BY <2>1, LoggedAt
  <2>3. Shrunk(openPositions[m], q) \in Position
    <3>1. openPositions[m] \in Position
      BY DEF TypeOK
    <3> QED
      BY <1>5, <3>1, ShrunkType DEF Exit
  <2>4. dailyRealizedPnl' \in Int
    BY <1>n, <2>1
  <2> QED
    BY <1>5, <1>n, <2>2, <2>3, <2>4 DEF Exit, RecordExit, TypeOK
<1>6. CASE alive /\ EndCycle
  <2>1. tradeLog' \in Log /\ failedWrites' \in 0 .. MaxFailedWrites /\ tradeLogBuffer' \in Seq(Log)
    BY <1>6, <1>e, FlushedAt, FlushFailsAt DEF EndCycle, Flush, TypeOK
  <2> QED
    BY <1>6, <2>1 DEF EndCycle, TypeOK, NoDay
<1>7. CASE Stop
  <2>1. tradeLog' \in Log /\ failedWrites' \in 0 .. MaxFailedWrites /\ lost' \in Log
    BY <1>7, FlushedAt, FlushFailsAt, LostAt DEF Stop, TypeOK
  <2>2. alive' \in BOOLEAN
    BY <1>7 DEF Stop, MemoryGone
  <2> QED
    BY <1>7, <1>e, <2>1, <2>2, EmptyMemory DEF Stop, MemoryGone, TypeOK
<1>8. CASE Crash
  <2>1. lost' \in Log
    BY <1>8, LostAt DEF Crash
  <2>2. alive' \in BOOLEAN
    BY <1>8 DEF Crash, MemoryGone
  <2> QED
    BY <1>8, <1>e, <2>1, <2>2, EmptyMemory DEF Crash, MemoryGone, TypeOK
<1>9. CASE NextDay
  BY <1>9, ConfigAssumption DEF NextDay, memory, TypeOK, Days
<1>10. CASE UNCHANGED vars
  BY <1>10 DEF vars, memory, TypeOK
<1> QED
  BY <1>1, <1>2, <1>3, <1>4, <1>5, <1>6, <1>7, <1>8, <1>9, <1>10 DEF Next

\* Every variable of the books has its type, whatever the limits, the markets
\* and the disk faults.
THEOREM TypeCorrect == Spec => []TypeOK
BY InitTypeOK, NextTypeOK, PTL DEF Spec

\* The numbers of a day's rows, wherever they are.
LEMMA RowFields ==
  ASSUME TypeOK, NEW d \in Days
  PROVE  /\ tradeLog[d] \in Rows /\ Buffered[d] \in Rows
         /\ lost[d] \in Rows /\ history[d] \in Rows
         /\ tradeLog[d].entries \in Nat /\ Buffered[d].entries \in Nat
         /\ lost[d].entries \in Nat /\ history[d].entries \in Nat
         /\ tradeLog[d].pnl \in Int /\ Buffered[d].pnl \in Int
         /\ lost[d].pnl \in Int /\ history[d].pnl \in Int
<1>1. tradeLog \in Log /\ Buffered \in Log /\ lost \in Log /\ history \in Log
  BY BufferedType DEF TypeOK
<1> QED
  BY <1>1, LogAt

\* A logged row in numbers.
LEMMA LoggedFields ==
  ASSUME TypeOK, NEW rows \in Rows, Logs(rows)
  PROVE  /\ Now \in Days
         /\ Buffered'[Now].entries = Buffered[Now].entries + rows.entries
         /\ Buffered'[Now].pnl = Buffered[Now].pnl + rows.pnl
         /\ history'[Now].entries = history[Now].entries + rows.entries
         /\ history'[Now].pnl = history[Now].pnl + rows.pnl
         /\ \A d \in Days \ {Now} : /\ Buffered'[d] = Buffered[d]
                                    /\ history'[d] = history[d]
<1>1. Now \in Days /\ Buffered[Now] \in Rows /\ history[Now] \in Rows
  BY NowIsADay, RowFields
<1> QED
  BY <1>1, LoggedAt, PlusRows

-----------------------------------------------------------------------------
(* Conservation of rows *)

\* A process that does not exist has no buffer and no reading of the clock.
DeadIsEmpty == ~ alive => tradeLogBuffer = <<>> /\ cachedNow = NoDay

\* What conservation rests on.
ConservedInv == TypeOK /\ DeadIsEmpty /\ RowsConserved

\* Initially there are no rows anywhere.
LEMMA InitConserved == Init => ConservedInv
<1> SUFFICES ASSUME Init
             PROVE  ConservedInv
  OBVIOUS
<1>1. TypeOK
  BY InitTypeOK
<1>2. DeadIsEmpty
  BY DEF Init, DeadIsEmpty
<1>3. Buffered = NoLog
  BY EmptyBuffer DEF Init
<1>4. RowsConserved
  BY <1>3, NoLogAt DEF Init, RowsConserved, NoRows
<1> QED
  BY <1>1, <1>2, <1>4 DEF ConservedInv

\* The logging of a row keeps the rows together.
LEMMA LogsConserved ==
  ASSUME ConservedInv, NEW rows \in Rows, Logs(rows)
  PROVE  DeadIsEmpty' /\ RowsConserved'
<1>t. TypeOK /\ RowsConserved /\ rows.entries \in Nat /\ rows.pnl \in Int
  BY DEF ConservedInv, Rows
<1>1. DeadIsEmpty'
  BY DEF Logs, DeadIsEmpty
<1>2. ASSUME NEW d \in Days
      PROVE  LET entries == tradeLog'[d].entries + Buffered'[d].entries + lost'[d].entries
                 pnl == tradeLog'[d].pnl + Buffered'[d].pnl + lost'[d].pnl
             IN  /\ history'[d].entries <= entries
                 /\ failedWrites' = 0 => history'[d].entries = entries /\ history'[d].pnl = pnl
  <2>1. /\ history[d].entries <= tradeLog[d].entries + Buffered[d].entries + lost[d].entries
        /\ failedWrites = 0 =>
             /\ history[d].entries = tradeLog[d].entries + Buffered[d].entries + lost[d].entries
             /\ history[d].pnl = tradeLog[d].pnl + Buffered[d].pnl + lost[d].pnl
    BY <1>t DEF RowsConserved
  <2>2. UNCHANGED <<tradeLog, lost, failedWrites>>
    BY DEF Logs
  <2>3. CASE d = Now
    BY <1>t, <2>1, <2>2, <2>3, LoggedFields, RowFields
  <2>4. CASE d # Now
    BY <1>t, <2>1, <2>2, <2>4, LoggedFields
  <2> QED
    BY <2>3, <2>4
<1>3. RowsConserved'
  BY <1>2 DEF RowsConserved
<1> QED
  BY <1>1, <1>3

\* Every operation that makes a row makes it once, every one that moves rows
\* moves all of them, or repeats some and has failed.
LEMMA NextConserved == ConservedInv /\ [Next]_vars => ConservedInv'
<1> SUFFICES ASSUME ConservedInv, [Next]_vars
             PROVE  ConservedInv'
  OBVIOUS
<1>t. TypeOK /\ TypeOK' /\ DeadIsEmpty /\ RowsConserved
  BY NextTypeOK DEF ConservedInv
<1>c. \A d \in Days :
        /\ history[d].entries <= tradeLog[d].entries + Buffered[d].entries + lost[d].entries
        /\ failedWrites = 0 =>
             /\ history[d].entries = tradeLog[d].entries + Buffered[d].entries + lost[d].entries
             /\ history[d].pnl = tradeLog[d].pnl + Buffered[d].pnl + lost[d].pnl
  BY <1>t DEF RowsConserved
<1> SUFFICES DeadIsEmpty' /\ RowsConserved'
  BY <1>t DEF ConservedInv
<1>1. CASE Start
  <2>1. DeadIsEmpty'
    BY <1>1 DEF Start, DeadIsEmpty
  <2>2. tradeLogBuffer' = tradeLogBuffer
    BY <1>1, <1>t DEF Start, DeadIsEmpty
  <2>3. Buffered' = Buffered
    BY <2>2 DEF Buffered, FirstRows
  <2> QED
    BY <1>1, <1>t, <2>1, <2>3 DEF Start, RowsConserved
<1>2. CASE alive /\ (GetCurrentDatetime \/ ResetDailyIfNeeded)
  <2>1. UNCHANGED <<alive, tradeLogBuffer, tradeLog, failedWrites, lost, history>>
    BY <1>2 DEF GetCurrentDatetime, ResetDailyIfNeeded
  <2>2. Buffered' = Buffered
    BY <2>1 DEF Buffered, FirstRows
  <2> QED
    BY <1>2, <1>t, <2>1, <2>2 DEF DeadIsEmpty, RowsConserved
<1>3. ASSUME NEW m \in Markets, NEW side \in Sides, NEW q \in Quantities,
             NEW p \in Prices, Enter(m, side, q, p)
      PROVE  DeadIsEmpty' /\ RowsConserved'
  BY <1>3, EnterLogs, LogsConserved
<1>4. ASSUME NEW m \in Markets, NEW q \in Quantities, NEW x \in ExitPrices, Exit(m, q, x)
      PROVE  DeadIsEmpty' /\ RowsConserved'
  <2>1. PICK pnl \in Int : /\ [entries |-> 0, pnl |-> pnl] \in Rows
                           /\ Logs([entries |-> 0, pnl |-> pnl])
    BY <1>4, <1>t, ExitLogs
  <2> QED
    BY <2>1, LogsConserved
<1>5. ASSUME tradeLog' = MergeLogs(tradeLog, Buffered), tradeLogBuffer' = <<>>,
             UNCHANGED <<failedWrites, lost, history>>
      PROVE  RowsConserved'
  <2>1. \A d \in Days : Buffered'[d].entries = 0 /\ Buffered'[d].pnl = 0
    BY <1>5, EmptyBuffer, NoLogAt DEF NoRows
  <2>2. \A d \in Days : /\ tradeLog'[d].entries = tradeLog[d].entries + Buffered[d].entries
                        /\ tradeLog'[d].pnl = tradeLog[d].pnl + Buffered[d].pnl
    BY <1>5, <1>t, FlushedAt
  <2> QED
    BY <1>5, <1>t, <1>c, <2>1, <2>2, RowFields DEF RowsConserved
<1>6. ASSUME lost' = MergeLogs(lost, Buffered), tradeLogBuffer' = <<>>, history' = history,
             FlushFails \/ UNCHANGED <<tradeLog, failedWrites>>
      PROVE  RowsConserved'
  <2>1. \A d \in Days : Buffered'[d].entries = 0 /\ Buffered'[d].pnl = 0
    BY <1>6, EmptyBuffer, NoLogAt DEF NoRows
  <2>2. \A d \in Days : /\ lost'[d].entries = lost[d].entries + Buffered[d].entries
                        /\ lost'[d].pnl = lost[d].pnl + Buffered[d].pnl
    BY <1>6, <1>t, LostAt
  <2>3. /\ \A d \in Days : /\ tradeLog'[d].entries \in Nat
                           /\ tradeLog'[d].entries >= tradeLog[d].entries
        /\ failedWrites' = 0 => failedWrites = 0 /\ tradeLog' = tradeLog
    <3>1. CASE FlushFails
      BY <1>t, <3>1, FlushFailsAt
    <3>2. CASE UNCHANGED <<tradeLog, failedWrites>>
      BY <1>t, <3>2, RowFields
    <3> QED
      BY <1>6, <3>1, <3>2
  <2> SUFFICES ASSUME NEW d \in Days
               PROVE  LET entries == tradeLog'[d].entries + Buffered'[d].entries + lost'[d].entries
                          pnl == tradeLog'[d].pnl + Buffered'[d].pnl + lost'[d].pnl
                      IN  /\ history'[d].entries <= entries
                          /\ failedWrites' = 0
                               => history'[d].entries = entries /\ history'[d].pnl = pnl
    BY DEF RowsConserved
  <2>4. /\ history'[d].entries = history[d].entries /\ history'[d].pnl = history[d].pnl
        /\ Buffered'[d].entries = 0 /\ Buffered'[d].pnl = 0
        /\ lost'[d].entries = lost[d].entries + Buffered[d].entries
        /\ lost'[d].pnl = lost[d].pnl + Buffered[d].pnl
    BY <1>6, <2>1, <2>2
  <2>5. /\ tradeLog[d].entries \in Nat /\ Buffered[d].entries \in Nat /\ lost[d].entries \in Nat
        /\ tradeLog[d].pnl \in Int /\ Buffered[d].pnl \in Int /\ lost[d].pnl \in Int
    BY <1>t, RowFields
  <2>6. history'[d].entries <= tradeLog'[d].entries + Buffered'[d].entries + lost'[d].entries
    <3>1. history[d].entries <= tradeLog[d].entries + Buffered[d].entries + lost[d].entries
      BY <1>c
    <3>2. tradeLog'[d].entries \in Nat /\ tradeLog'[d].entries >= tradeLog[d].entries
      BY <2>3
    <3>3. history[d].entries \in Nat
      BY <1>t, RowFields
    <3> QED
      BY <2>4, <2>5, <3>1, <3>2, <3>3
  <2>7. ASSUME failedWrites' = 0
        PROVE  /\ history'[d].entries
                    = tradeLog'[d].entries + Buffered'[d].entries + lost'[d].entries
               /\ history'[d].pnl = tradeLog'[d].pnl + Buffered'[d].pnl + lost'[d].pnl
    <3>1. failedWrites = 0 /\ tradeLog' = tradeLog
      BY <2>3, <2>7
    <3>2. /\ history[d].entries = tradeLog[d].entries + Buffered[d].entries + lost[d].entries
          /\ history[d].pnl = tradeLog[d].pnl + Buffered[d].pnl + lost[d].pnl
      BY <1>c, <3>1
    <3> QED
      BY <2>4, <2>5, <3>1, <3>2
  <2> QED
    BY <2>6, <2>7
<1>7. CASE alive /\ EndCycle
  <2>1. DeadIsEmpty'
    BY <1>7 DEF EndCycle, DeadIsEmpty
  <2>2. CASE FlushFails /\ UNCHANGED tradeLogBuffer
    <3>1. UNCHANGED <<history, lost>> /\ Buffered' = Buffered
      BY <1>7, <2>2 DEF EndCycle, Buffered, FirstRows
    <3>2. /\ \A d \in Days : /\ tradeLog'[d].entries \in Nat
                             /\ tradeLog'[d].entries >= tradeLog[d].entries
          /\ failedWrites' = 0 => failedWrites = 0 /\ tradeLog' = tradeLog
      BY <1>t, <2>2, FlushFailsAt
    <3>3. ASSUME NEW d \in Days
          PROVE  history'[d].entries
                   <= tradeLog'[d].entries + Buffered'[d].entries + lost'[d].entries
      <4>1. history[d].entries <= tradeLog[d].entries + Buffered[d].entries + lost[d].entries
        BY <1>c
      <4>2. /\ tradeLog[d].entries \in Nat /\ Buffered[d].entries \in Nat
            /\ lost[d].entries \in Nat /\ history[d].entries \in Nat
        BY <1>t, RowFields
      <4>3. tradeLog'[d].entries \in Nat /\ tradeLog'[d].entries >= tradeLog[d].entries
        BY <3>2
      <4> QED
        BY <3>1, <4>1, <4>2, <4>3
    <3>4. RowsConserved'
      BY <1>c, <3>1, <3>2, <3>3 DEF RowsConserved
    <3> QED
      BY <2>1, <3>4
  <2> QED
    BY <1>5, <1>7, <2>1, <2>2 DEF EndCycle, Flush
<1>8. CASE Stop \/ Crash
  <2>1. DeadIsEmpty'
    BY <1>8 DEF Stop, Crash, MemoryGone, DeadIsEmpty
  <2>2. tradeLogBuffer' = <<>> /\ history' = history
    BY <1>8 DEF Stop, Crash, MemoryGone
  <2>3. \/ tradeLog' = MergeLogs(tradeLog, Buffered) /\ UNCHANGED <<failedWrites, lost>>
        \/ /\ lost' = MergeLogs(lost, Buffered)
           /\ FlushFails \/ UNCHANGED <<tradeLog, failedWrites>>
    BY <1>8 DEF Stop, Crash
  <2> QED
    BY <1>5, <1>6, <2>1, <2>2, <2>3
<1>9. CASE NextDay \/ UNCHANGED vars
  <2>1. UNCHANGED <<alive, cachedNow, tradeLogBuffer, tradeLog, failedWrites, lost, history>>
    BY <1>9 DEF NextDay, vars, memory
  <2>2. Buffered' = Buffered
    BY <2>1 DEF Buffered, FirstRows
  <2> QED
    BY <1>t, <2>1, <2>2 DEF DeadIsEmpty, RowsConserved
<1> QED
  BY <1>1, <1>2, <1>3, <1>4, <1>7, <1>8, <1>9 DEF Next

\* No logged entry vanishes but with a process, and while no write of the log
\* has failed every row is kept exactly once, with logs that cannot be opened,
\* crashes and any number of restarts.
THEOREM RowsAreConserved == Spec => []RowsConserved
<1>1. ConservedInv => RowsConserved
  BY DEF ConservedInv
<1> QED
  BY InitConserved, NextConserved, <1>1, PTL DEF Spec

-----------------------------------------------------------------------------
(* The daily figures *)

\* The clock reading of a cycle and the day of the figures never run ahead.
DatesInOrder ==
  alive => /\ today <= clock
           /\ cachedNow # NoDay => today <= cachedNow /\ cachedNow <= clock

\* No row of a day in the file, in any beginning of the buffer, or ever logged.
NoRowsOf(d) ==
  /\ tradeLog[d] = NoRows
  /\ history[d] = NoRows
  /\ \A n \in 0 .. Len(tradeLogBuffer) : FirstRows(n)[d] = NoRows

\* No row is dated after the clock, or after the day of the figures.
NothingAhead == \A d \in Days : d > clock \/ (alive /\ d > today) => NoRowsOf(d)

\* What every claim about the daily figures rests on.
DayInv == TypeOK /\ DeadIsEmpty /\ DatesInOrder /\ NothingAhead

\* The day being worked in lies between the day of the figures and the clock.
LEMMA NowInOrder == DayInv /\ alive => today <= Now /\ Now <= clock
<1> SUFFICES ASSUME DayInv, alive
             PROVE  today <= Now /\ Now <= clock
  OBVIOUS
<1>1. clock \in Int /\ today \in Int
  BY ConfigAssumption DEF DayInv, TypeOK, Days
<1> QED
  BY <1>1 DEF DayInv, DatesInOrder, Now

\* A day without rows has none in the whole buffer either.
LEMMA NothingBufferedOf ==
  ASSUME TypeOK, NEW d \in Days, NoRowsOf(d)
  PROVE  Buffered[d] = NoRows
<1>1. Len(tradeLogBuffer) \in 0 .. Len(tradeLogBuffer)
  BY BufferedType DEF TypeOK
<1> QED
  BY <1>1 DEF NoRowsOf, Buffered

\* The empty books.
LEMMA InitDays == Init => DayInv
<1> SUFFICES ASSUME Init
             PROVE  DayInv
  OBVIOUS
<1>1. TypeOK
  BY InitTypeOK
<1>2. DeadIsEmpty
  BY DEF Init, DeadIsEmpty
<1>3. DatesInOrder
  BY DEF Init, DatesInOrder
<1>4. NothingAhead
  <2>1. tradeLogBuffer = <<>> /\ Len(tradeLogBuffer) = 0 /\ tradeLog = NoLog /\ history = NoLog
    BY EmptyBuffer DEF Init
  <2> QED
    BY <2>1, NoLogAt DEF NothingAhead, NoRowsOf, FirstRows
<1> QED
  BY <1>1, <1>2, <1>3, <1>4 DEF DayInv

\* Every operation keeps the dates in order.
LEMMA NextDays == DayInv /\ [Next]_vars => DayInv'
<1> SUFFICES ASSUME DayInv, [Next]_vars
             PROVE  DayInv'
  OBVIOUS
<1>t. TypeOK /\ TypeOK' /\ DeadIsEmpty /\ DatesInOrder /\ NothingAhead
  BY NextTypeOK DEF DayInv
<1>d. /\ clock \in Int /\ today \in Int /\ clock' \in Int /\ today' \in Int
      /\ \A d \in Days : d \in Int
  BY <1>t, ConfigAssumption DEF TypeOK, Days
<1>c. cachedNow \in Int
  BY <1>t, ConfigAssumption DEF TypeOK, Days, NoDay
<1>n. Now \in Days /\ Now \in Int /\ (alive => today <= Now /\ Now <= clock)
  BY <1>t, <1>d, NowIsADay, NowInOrder
<1> SUFFICES DeadIsEmpty' /\ DatesInOrder' /\ NothingAhead'
  BY <1>t DEF DayInv
<1>s. ASSUME UNCHANGED <<tradeLog, history, tradeLogBuffer>>, NEW d \in Days, NoRowsOf(d)
      PROVE  NoRowsOf(d)'
  BY <1>s DEF NoRowsOf, FirstRows
<1>1. CASE Start
  <2>1. UNCHANGED <<tradeLog, history, tradeLogBuffer>> /\ clock' = clock /\ today' = clock
    BY <1>1, <1>t DEF Start, DeadIsEmpty
  <2>2. NothingAhead'
    BY <1>t, <1>s, <2>1 DEF NothingAhead
  <2>3. DeadIsEmpty'
    BY <1>1 DEF Start, DeadIsEmpty
  <2>4. DatesInOrder'
    <3>1. cachedNow' = NoDay
      BY <1>1 DEF Start
    <3>2. clock <= clock
      BY <1>d
    <3> QED
      BY <2>1, <3>1, <3>2 DEF DatesInOrder
  <2> QED
    BY <2>2, <2>3, <2>4
<1>2. CASE alive /\ GetCurrentDatetime
  <2>1. UNCHANGED <<tradeLog, history, tradeLogBuffer, clock, alive, today>> /\ cachedNow' = Now
    BY <1>2 DEF GetCurrentDatetime
  <2>2. NothingAhead'
    BY <1>t, <1>s, <2>1 DEF NothingAhead
  <2> QED
    BY <1>2, <1>t, <1>n, <2>1, <2>2 DEF DeadIsEmpty, DatesInOrder
<1>3. CASE alive /\ ResetDailyIfNeeded
  <2>1. UNCHANGED <<tradeLog, history, tradeLogBuffer, clock, alive>>
        /\ cachedNow' = Now /\ today' = Now
    BY <1>3 DEF ResetDailyIfNeeded
  <2>2. \A d \in Days : d > Now => d > today
    BY <1>3, <1>n, <1>d
  <2>3. NothingAhead'
    BY <1>3, <1>t, <1>s, <2>1, <2>2 DEF NothingAhead
  <2> QED
    BY <1>3, <1>n, <2>1, <2>3 DEF DeadIsEmpty, DatesInOrder
<1>4. ASSUME NEW rows \in Rows, Logs(rows)
      PROVE  DeadIsEmpty' /\ DatesInOrder' /\ NothingAhead'
  <2>1. DeadIsEmpty' /\ DatesInOrder'
    BY <1>4, <1>n DEF Logs, DeadIsEmpty, DatesInOrder
  <2>2. ASSUME NEW d \in Days, d > clock' \/ (alive' /\ d > today')
        PROVE  NoRowsOf(d)'
    <3>1. d # Now /\ (d > clock \/ d > today)
      BY <1>4, <1>n, <1>d, <2>2 DEF Logs
    <3>2. NoRowsOf(d)
      BY <1>4, <1>t, <3>1 DEF NothingAhead, Logs
    <3>3. history'[d] = NoRows /\ Buffered'[d] = NoRows /\ tradeLog'[d] = NoRows
      <4>1. Buffered[d] = NoRows
        BY <1>t, <3>2, NothingBufferedOf
      <4> QED
        BY <1>4, <1>t, <3>1, <3>2, <4>1, LoggedAt DEF NoRowsOf, Logs
    <3>4. \A n \in 0 .. Len(tradeLogBuffer)' :
            FirstRows(n)' = IF n \in 0 .. Len(tradeLogBuffer) THEN FirstRows(n) ELSE Buffered'
      BY <1>4, <1>t, <1>n, OneMoreRow DEF Logs, BufferRow, TypeOK
    <3>5. \A n \in 0 .. Len(tradeLogBuffer)' : FirstRows(n)'[d] = NoRows
      BY <3>2, <3>3, <3>4 DEF NoRowsOf
    <3> QED
      BY <3>3, <3>5 DEF NoRowsOf
  <2> QED
    BY <2>1, <2>2 DEF NothingAhead
<1>5. ASSUME NEW m \in Markets, NEW side \in Sides, NEW q \in Quantities,
             NEW p \in Prices, Enter(m, side, q, p)
      PROVE  DeadIsEmpty' /\ DatesInOrder' /\ NothingAhead'
  BY <1>4, <1>5, EnterLogs
<1>6. ASSUME NEW m \in Markets, NEW q \in Quantities, NEW x \in ExitPrices, Exit(m, q, x)
      PROVE  DeadIsEmpty' /\ DatesInOrder' /\ NothingAhead'
  <2>1. PICK pnl \in Int : /\ [entries |-> 0, pnl |-> pnl] \in Rows
                           /\ Logs([entries |-> 0, pnl |-> pnl])
    BY <1>6, <1>t, ExitLogs
  <2> QED
    BY <1>4, <2>1
<1>7. ASSUME NEW d \in Days, NoRowsOf(d), history' = history,
             tradeLogBuffer' = <<>> \/ tradeLogBuffer' = tradeLogBuffer,
             \/ tradeLog' = tradeLog
             \/ tradeLog' = MergeLogs(tradeLog, Buffered)
             \/ FlushFails
      PROVE  NoRowsOf(d)'
  <2>1. tradeLog'[d] = NoRows
    <3>1. CASE tradeLog' = MergeLogs(tradeLog, Buffered)
      <4>1. tradeLog'[d] = Plus(NoRows, NoRows)
        BY <1>7, <1>t, <3>1, FlushedAt, NothingBufferedOf DEF NoRowsOf
      <4>2. NoRows \in Rows
        BY DEF NoRows, Rows
      <4> QED
        BY <4>1, <4>2, PlusNoRows
    <3>2. CASE FlushFails
      BY <1>7, <1>t, <3>2, FlushFailsAt DEF NoRowsOf
    <3> QED
      BY <1>7, <3>1, <3>2 DEF NoRowsOf
  <2>2. \A n \in 0 .. Len(tradeLogBuffer)' : FirstRows(n)'[d] = NoRows
    <3>1. CASE tradeLogBuffer' = <<>>
      BY <3>1, NoLogAt, EmptyBuffer DEF FirstRows
    <3>2. CASE tradeLogBuffer' = tradeLogBuffer
      BY <1>7, <3>2 DEF NoRowsOf, FirstRows
    <3> QED
      BY <1>7, <3>1, <3>2
  <2> QED
    BY <1>7, <2>1, <2>2 DEF NoRowsOf
<1>8. CASE alive /\ EndCycle
  <2>1. DeadIsEmpty' /\ DatesInOrder'
    BY <1>8, <1>t DEF EndCycle, DeadIsEmpty, DatesInOrder
  <2>2. /\ UNCHANGED <<alive, today, clock, history>>
        /\ tradeLogBuffer' = <<>> \/ tradeLogBuffer' = tradeLogBuffer
        /\ tradeLog' = MergeLogs(tradeLog, Buffered) \/ FlushFails
    BY <1>8 DEF EndCycle, Flush
  <2>3. NothingAhead'
    BY <1>7, <1>t, <2>2 DEF NothingAhead
  <2> QED
    BY <2>1, <2>3
<1>9. CASE Stop \/ Crash
  <2>1. DeadIsEmpty' /\ DatesInOrder'
    BY <1>9 DEF Stop, Crash, MemoryGone, DeadIsEmpty, DatesInOrder
  <2>2. /\ ~ alive' /\ UNCHANGED <<clock, history>> /\ tradeLogBuffer' = <<>>
        /\ tradeLog' = tradeLog \/ tradeLog' = MergeLogs(tradeLog, Buffered) \/ FlushFails
    BY <1>9 DEF Stop, Crash, MemoryGone
  <2>3. NothingAhead'
    BY <1>7, <1>t, <2>2 DEF NothingAhead
  <2> QED
    BY <2>1, <2>3
<1>10. CASE NextDay
  <2>1. DeadIsEmpty' /\ DatesInOrder'
    BY <1>10, <1>t, <1>d, <1>c DEF NextDay, memory, DeadIsEmpty, DatesInOrder
  <2>2. UNCHANGED <<alive, today, tradeLog, history, tradeLogBuffer>> /\ clock' = clock + 1
    BY <1>10 DEF NextDay, memory
  <2>3. \A d \in Days : d > clock' => d > clock
    BY <1>d, <2>2
  <2>4. NothingAhead'
    BY <1>t, <1>s, <2>2, <2>3 DEF NothingAhead
  <2> QED
    BY <2>1, <2>4
<1>11. CASE UNCHANGED vars
  <2>1. NothingAhead'
    BY <1>11, <1>t, <1>s DEF vars, memory, NothingAhead
  <2> QED
    BY <1>11, <1>t, <2>1 DEF vars, memory, DeadIsEmpty, DatesInOrder
<1> QED
  BY <1>1, <1>2, <1>3, <1>5, <1>6, <1>8, <1>9, <1>10, <1>11 DEF Next

-----------------------------------------------------------------------------
(* The entries of a day *)

\* The count in memory covers every entry of its day but those lost with a
\* process.
CountCoversEntries ==
  alive => history[today].entries <= dailyTradeCount + lost[today].entries

CountInv == DayInv /\ ConservedInv /\ CountCoversEntries /\ DailyEntriesBounded

\* The empty books.
LEMMA InitCount == Init => CountInv
<1> SUFFICES ASSUME Init
             PROVE  CountInv
  OBVIOUS
<1>1. DayInv /\ ConservedInv
  BY InitDays, InitConserved
<1>2. CountCoversEntries
  BY DEF Init, CountCoversEntries
<1>3. DailyEntriesBounded
  BY NoLogAt, ConfigAssumption DEF Init, DailyEntriesBounded, NoRows
<1> QED
  BY <1>1, <1>2, <1>3 DEF CountInv

\* The count starts from the rows, grows with every entry, and is only reset on
\* a day that has no row yet.
LEMMA NextCount ==
  ASSUME "read" \notin DiskFaults
  PROVE  CountInv /\ [Next]_vars => CountInv'
<1> SUFFICES ASSUME CountInv, [Next]_vars
             PROVE  CountInv'
  OBVIOUS
<1>i. DayInv /\ DayInv' /\ ConservedInv /\ ConservedInv' /\ CountCoversEntries /\ DailyEntriesBounded
  BY NextDays, NextConserved DEF CountInv
<1>t. TypeOK /\ TypeOK' /\ DeadIsEmpty /\ NothingAhead
  BY <1>i DEF DayInv
<1>d. /\ today \in Days /\ clock \in Days /\ clock \in Int /\ today \in Int
      /\ dailyTradeCount \in Nat /\ \A d \in Days : d \in Int
  BY <1>t, ConfigAssumption DEF TypeOK, Days
<1>n. Now \in Days /\ Now \in Int /\ (alive => today <= Now /\ Now <= clock)
  BY <1>i, <1>t, <1>d, NowIsADay, NowInOrder
<1>c. alive => history[Now].entries <= CountToday + lost[Now].entries
  <2> SUFFICES ASSUME alive
               PROVE  history[Now].entries <= CountToday + lost[Now].entries
    OBVIOUS
  <2>1. CASE Now = today
    BY <1>i, <2>1 DEF CountToday, CountCoversEntries
  <2>2. CASE Now # today
    <3>1. Now > today
      BY <1>n, <1>d, <2>2
    <3>2. history[Now].entries = 0
      BY <1>t, <1>n, <3>1 DEF NothingAhead, NoRowsOf, NoRows
    <3>3. lost[Now].entries \in Nat
      BY <1>t, <1>n, RowFields
    <3> QED
      BY <2>2, <3>2, <3>3 DEF CountToday
  <2> QED
    BY <2>1, <2>2
<1>b. \A d \in Days : history[d].entries <= MAX_DAILY_TRADES + lost[d].entries
  BY <1>i DEF DailyEntriesBounded
<1> SUFFICES CountCoversEntries' /\ DailyEntriesBounded'
  BY <1>i DEF CountInv
<1>1. CASE Start
  <2>1. Buffered[clock].entries = 0
    BY <1>1, <1>t, <1>d, EmptyBuffer, NoLogAt DEF Start, DeadIsEmpty, NoRows
  <2>2. /\ dailyTradeCount' = tradeLog[clock].entries /\ today' = clock
        /\ UNCHANGED <<history, lost>>
    BY <1>1 DEF Start
  <2>3. history[clock].entries <= tradeLog[clock].entries + Buffered[clock].entries + lost[clock].entries
    BY <1>i, <1>d DEF ConservedInv, RowsConserved
  <2>4. history[clock].entries <= tradeLog[clock].entries + lost[clock].entries
    BY <1>t, <1>d, <2>1, <2>3, RowFields
  <2> QED
    BY <1>b, <2>2, <2>4 DEF CountCoversEntries, DailyEntriesBounded
<1>2. CASE alive /\ GetCurrentDatetime
  BY <1>2, <1>i DEF GetCurrentDatetime, CountCoversEntries, DailyEntriesBounded
<1>3. CASE alive /\ ResetDailyIfNeeded
  BY <1>3, <1>b, <1>c DEF ResetDailyIfNeeded, CountCoversEntries, DailyEntriesBounded
<1>4. ASSUME NEW m \in Markets, NEW side \in Sides, NEW q \in Quantities,
             NEW p \in Prices, Enter(m, side, q, p)
      PROVE  CountCoversEntries' /\ DailyEntriesBounded'
  <2> DEFINE row == [entries |-> 1, pnl |-> 0]
  <2>1. /\ row \in Rows /\ Logs(row) /\ row.entries = 1
        /\ Now = today /\ CountToday = dailyTradeCount
        /\ dailyTradeCount' = dailyTradeCount + 1
    BY <1>4, EnterLogs
  <2> HIDE DEF row
  <2>2. dailyTradeCount < MAX_DAILY_TRADES
    BY <1>4, <1>d, <2>1, ConfigAssumption DEF Enter, new_entries_blocked
  <2>3. /\ history'[Now].entries = history[Now].entries + 1
        /\ \A d \in Days \ {Now} : history'[d] = history[d]
    BY <1>t, <2>1, LoggedFields
  <2>4. today' = Now /\ lost' = lost /\ alive
    BY <2>1 DEF Logs
  <2>5. history[Now].entries \in Nat /\ lost[Now].entries \in Nat
    BY <1>t, <1>n, RowFields
  <2>6. /\ history'[Now].entries <= dailyTradeCount' + lost[Now].entries
        /\ history'[Now].entries <= MAX_DAILY_TRADES + lost[Now].entries
    BY <1>c, <1>d, <2>1, <2>2, <2>3, <2>4, <2>5, ConfigAssumption
  <2>7. CountCoversEntries'
    BY <2>4, <2>6 DEF CountCoversEntries
  <2>8. DailyEntriesBounded'
    BY <1>b, <2>3, <2>4, <2>6 DEF DailyEntriesBounded
  <2> QED
    BY <2>7, <2>8
<1>5. ASSUME NEW m \in Markets, NEW q \in Quantities, NEW x \in ExitPrices, Exit(m, q, x)
      PROVE  CountCoversEntries' /\ DailyEntriesBounded'
  <2>1. PICK pnl \in Int : /\ [entries |-> 0, pnl |-> pnl] \in Rows
                           /\ Logs([entries |-> 0, pnl |-> pnl])
                           /\ dailyTradeCount' = CountToday
    BY <1>5, <1>t, ExitLogs
  <2>2. \A d \in Days : history'[d].entries = history[d].entries
    <3>1. history'[Now].entries = history[Now].entries + 0
          /\ \A d \in Days \ {Now} : history'[d] = history[d]
      BY <1>t, <2>1, LoggedFields
    <3> QED
      BY <1>t, <1>n, <3>1, RowFields
  <2>3. today' = Now /\ lost' = lost /\ alive
    BY <2>1 DEF Logs
  <2> QED
    BY <1>b, <1>c, <1>n, <2>1, <2>2, <2>3 DEF CountCoversEntries, DailyEntriesBounded
<1>6. CASE alive /\ EndCycle
  BY <1>6, <1>i DEF EndCycle, CountCoversEntries, DailyEntriesBounded
<1>7. CASE Stop \/ Crash
  <2>1. ~ alive' /\ history' = history /\ (lost' = lost \/ lost' = MergeLogs(lost, Buffered))
    BY <1>7 DEF Stop, Crash, MemoryGone
  <2>2. ASSUME NEW d \in Days
        PROVE  history'[d].entries <= MAX_DAILY_TRADES + lost'[d].entries
    <3>1. CASE lost' = lost
      BY <1>b, <2>1, <3>1
    <3>2. CASE lost' = MergeLogs(lost, Buffered)
      <4>1. lost'[d].entries = lost[d].entries + Buffered[d].entries
        BY <1>t, <3>2, LostAt
      <4> QED
        BY <1>b, <1>t, <2>1, <4>1, RowFields, ConfigAssumption
    <3> QED
      BY <2>1, <3>1, <3>2
  <2> QED
    BY <2>1, <2>2 DEF CountCoversEntries, DailyEntriesBounded
<1>8. CASE NextDay \/ UNCHANGED vars
  BY <1>8, <1>i DEF NextDay, vars, memory, CountCoversEntries, DailyEntriesBounded
<1> QED
  BY <1>1, <1>2, <1>3, <1>4, <1>5, <1>6, <1>7, <1>8 DEF Next

\* MAX_DAILY_TRADES bounds the entries of a UTC day over all processes of that
\* day, but for those whose rows were lost with a process, also when writing or
\* closing the log fails and rows are repeated; only a start-up that cannot
\* read the log is excluded.
THEOREM DailyTradesAreBounded ==
  ASSUME "read" \notin DiskFaults
  PROVE  Spec => []DailyEntriesBounded
<1>1. CountInv => DailyEntriesBounded
  BY DEF CountInv
<1> QED
  BY InitCount, NextCount, <1>1, PTL DEF Spec

-----------------------------------------------------------------------------
(* Memory and log agree *)

StatsInv == DayInv /\ StatsMatchLog

\* The figures of the day being worked in, rolled over if need be.
LEMMA TodayMatches ==
  ASSUME StatsInv, alive, failedWrites = 0
  PROVE  /\ CountToday = tradeLog[Now].entries + Buffered[Now].entries
         /\ PnlToday = tradeLog[Now].pnl + Buffered[Now].pnl
<1>1. TypeOK /\ NothingAhead /\ DayInv
  BY DEF StatsInv, DayInv
<1>2. CASE Now = today
  BY <1>2 DEF StatsInv, StatsMatchLog, CountToday, PnlToday
<1>3. CASE Now # today
  <2>1. Now \in Days /\ today <= Now
    BY <1>1, NowIsADay, NowInOrder
  <2>2. Now > today
    BY <1>1, <1>3, <2>1, ConfigAssumption DEF TypeOK, Days
  <2>3. tradeLog[Now] = NoRows /\ Buffered[Now] = NoRows
    BY <1>1, <2>1, <2>2, NothingBufferedOf DEF NothingAhead, NoRowsOf
  <2> QED
    BY <1>3, <2>3 DEF CountToday, PnlToday, NoRows
<1> QED
  BY <1>2, <1>3

\* A new row changes the figures in memory and the buffer alike.
LEMMA RowKeepsStats ==
  ASSUME StatsInv, NEW row \in Rows, Logs(row),
         dailyTradeCount' = CountToday + row.entries,
         dailyRealizedPnl' = PnlToday + row.pnl
  PROVE  StatsMatchLog'
<1> SUFFICES ASSUME failedWrites' = 0
             PROVE  /\ dailyTradeCount' = tradeLog'[today'].entries + Buffered'[today'].entries
                    /\ dailyRealizedPnl' = tradeLog'[today'].pnl + Buffered'[today'].pnl
  BY DEF StatsMatchLog
<1>1. TypeOK /\ Now \in Days
  BY NowIsADay DEF StatsInv, DayInv
<1>2. alive /\ today' = Now /\ tradeLog' = tradeLog /\ failedWrites = 0
  BY DEF Logs
<1>3. /\ Buffered'[Now].entries = Buffered[Now].entries + row.entries
      /\ Buffered'[Now].pnl = Buffered[Now].pnl + row.pnl
  BY <1>1, LoggedFields
<1>4. /\ CountToday = tradeLog[Now].entries + Buffered[Now].entries
      /\ PnlToday = tradeLog[Now].pnl + Buffered[Now].pnl
  BY <1>2, TodayMatches
<1>5. /\ tradeLog[Now].entries \in Nat /\ Buffered[Now].entries \in Nat
      /\ tradeLog[Now].pnl \in Int /\ Buffered[Now].pnl \in Int
      /\ row.entries \in Nat /\ row.pnl \in Int
  BY <1>1, RowFields DEF Rows
<1> QED
  BY <1>2, <1>3, <1>4, <1>5

\* The empty books.
LEMMA InitStats == Init => StatsInv
BY InitDays DEF Init, StatsInv, StatsMatchLog

\* Memory and log stay in step.
LEMMA NextStats ==
  ASSUME "read" \notin DiskFaults
  PROVE  StatsInv /\ [Next]_vars => StatsInv'
<1> SUFFICES ASSUME StatsInv, [Next]_vars
             PROVE  StatsInv'
  OBVIOUS
<1>i. DayInv /\ DayInv' /\ StatsMatchLog
  BY NextDays DEF StatsInv
<1>t. TypeOK /\ TypeOK' /\ DeadIsEmpty /\ today \in Days /\ clock \in Days
  BY <1>i DEF DayInv, TypeOK
<1>u. tradeLogBuffer' = tradeLogBuffer => Buffered' = Buffered
  BY DEF Buffered, FirstRows
<1> SUFFICES StatsMatchLog'
  BY <1>i DEF StatsInv
<1>1. CASE Start
  <2>1. tradeLog' = tradeLog /\ tradeLogBuffer' = <<>> /\ today' = clock
        /\ dailyTradeCount' = tradeLog[clock].entries
        /\ dailyRealizedPnl' = tradeLog[clock].pnl
    BY <1>1 DEF Start
  <2>2. Buffered'[clock].entries = 0 /\ Buffered'[clock].pnl = 0
    BY <1>t, <2>1, EmptyBuffer, NoLogAt DEF NoRows
  <2>3. tradeLog[clock].entries \in Nat /\ tradeLog[clock].pnl \in Int
    BY <1>t, RowFields
  <2> QED
    BY <2>1, <2>2, <2>3 DEF StatsMatchLog
<1>2. CASE alive /\ GetCurrentDatetime
  BY <1>2, <1>i, <1>u DEF GetCurrentDatetime, StatsMatchLog
<1>3. CASE alive /\ ResetDailyIfNeeded
  <2>1. UNCHANGED <<alive, tradeLog, failedWrites>> /\ Buffered' = Buffered /\ today' = Now
        /\ dailyTradeCount' = CountToday /\ dailyRealizedPnl' = PnlToday
    BY <1>3, <1>u DEF ResetDailyIfNeeded
  <2> QED
    BY <1>3, <2>1, TodayMatches DEF StatsMatchLog
<1>4. ASSUME NEW m \in Markets, NEW side \in Sides, NEW q \in Quantities,
             NEW p \in Prices, Enter(m, side, q, p)
      PROVE  StatsMatchLog'
  <2> DEFINE row == [entries |-> 1, pnl |-> 0]
  <2>1. /\ row \in Rows /\ Logs(row) /\ row.entries = 1 /\ row.pnl = 0
        /\ dailyTradeCount' = CountToday + 1 /\ dailyRealizedPnl' = PnlToday
    BY <1>4, EnterLogs
  <2>2. PnlToday \in Int
    BY <1>t, FiguresToday
  <2> HIDE DEF row
  <2>3. dailyTradeCount' = CountToday + row.entries /\ dailyRealizedPnl' = PnlToday + row.pnl
    BY <2>1, <2>2
  <2> QED
    BY <2>1, <2>3, RowKeepsStats
<1>5. ASSUME NEW m \in Markets, NEW q \in Quantities, NEW x \in ExitPrices, Exit(m, q, x)
      PROVE  StatsMatchLog'
  <2>1. PICK pnl \in Int : /\ [entries |-> 0, pnl |-> pnl] \in Rows
                           /\ Logs([entries |-> 0, pnl |-> pnl])
                           /\ dailyTradeCount' = CountToday
                           /\ dailyRealizedPnl' = PnlToday + pnl
    BY <1>5, <1>t, ExitLogs
  <2> DEFINE row == [entries |-> 0, pnl |-> pnl]
  <2>2. row \in Rows /\ Logs(row) /\ row.entries = 0 /\ row.pnl = pnl
    BY <2>1
  <2>3. CountToday \in Nat
    BY <1>t, FiguresToday
  <2> HIDE DEF row
  <2>4. dailyTradeCount' = CountToday + row.entries /\ dailyRealizedPnl' = PnlToday + row.pnl
    BY <2>1, <2>2, <2>3
  <2> QED
    BY <2>2, <2>4, RowKeepsStats
<1>6. CASE alive /\ EndCycle
  <2>1. UNCHANGED <<alive, today, dailyTradeCount, dailyRealizedPnl>>
    BY <1>6 DEF EndCycle
  <2>2. CASE /\ tradeLog' = MergeLogs(tradeLog, Buffered) /\ tradeLogBuffer' = <<>>
             /\ UNCHANGED failedWrites
    <3>1. /\ tradeLog'[today].entries = tradeLog[today].entries + Buffered[today].entries
          /\ tradeLog'[today].pnl = tradeLog[today].pnl + Buffered[today].pnl
      BY <1>t, <2>2, FlushedAt
    <3>2. Buffered'[today].entries = 0 /\ Buffered'[today].pnl = 0
      BY <1>t, <2>2, EmptyBuffer, NoLogAt DEF NoRows
    <3>3. /\ tradeLog[today].entries \in Nat /\ Buffered[today].entries \in Nat
          /\ tradeLog[today].pnl \in Int /\ Buffered[today].pnl \in Int
      BY <1>t, RowFields
    <3> QED
      BY <1>i, <2>1, <2>2, <3>1, <3>2, <3>3 DEF StatsMatchLog
  <2>3. CASE FlushFails /\ UNCHANGED tradeLogBuffer
    <3>1. failedWrites' = 0 => failedWrites = 0 /\ tradeLog' = tradeLog
      BY <1>t, <2>3, FlushFailsAt
    <3> QED
      BY <1>i, <1>u, <2>1, <2>3, <3>1 DEF StatsMatchLog
  <2> QED
    BY <1>6, <2>2, <2>3 DEF EndCycle, Flush
<1>7. CASE Stop \/ Crash
  BY <1>7 DEF Stop, Crash, MemoryGone, StatsMatchLog
<1>8. CASE NextDay \/ UNCHANGED vars
  BY <1>8, <1>i, <1>u DEF NextDay, vars, memory, StatsMatchLog
<1> QED
  BY <1>1, <1>2, <1>3, <1>4, <1>5, <1>6, <1>7, <1>8 DEF Next

\* The figures that gate entries equal what a restart would rebuild from the
\* rows written and about to be written, as long as no write of the log has
\* failed and on disks that can be read.
THEOREM StatsMatchTheLog ==
  ASSUME "read" \notin DiskFaults
  PROVE  Spec => []StatsMatchLog
<1>1. StatsInv => StatsMatchLog
  BY DEF StatsInv
<1> QED
  BY InitStats, NextStats, <1>1, PTL DEF Spec

\* Entries stop at the daily loss limit, counting the losses of all earlier
\* processes of the day that are on record, as long as no write has failed.
THEOREM LossGateHolds ==
  ASSUME "read" \notin DiskFaults
  PROVE  Spec => LossGate
<1>1. StatsInv /\ ConservedInv /\ [Next]_vars => [failedWrites = 0 => EntriesWithinLosses]_vars
  <2> SUFFICES ASSUME StatsInv, ConservedInv, Next, failedWrites = 0, NEW d \in Days,
                      history'[d].entries > history[d].entries
               PROVE  history[d].pnl - lost[d].pnl > -MAX_DAILY_LOSS_CENTS
    BY DEF EntriesWithinLosses
  <2>t. TypeOK /\ Now \in Days
    BY NowIsADay DEF ConservedInv
  <2>u. history[d].entries \in Nat
    BY <2>t, RowFields
  <2>1. CASE history' = history
    BY <2>1, <2>u
  <2>2. ASSUME NEW m \in Markets, NEW q \in Quantities, NEW x \in ExitPrices, Exit(m, q, x)
        PROVE  FALSE
    <3>1. PICK pnl \in Int : /\ [entries |-> 0, pnl |-> pnl] \in Rows
                             /\ Logs([entries |-> 0, pnl |-> pnl])
      BY <2>t, <2>2, ExitLogs
    <3>2. history'[d].entries = history[d].entries
      <4>1. CASE d = Now
        <5>1. history'[d].entries = history[d].entries + 0
          BY <2>t, <3>1, <4>1, LoggedFields
        <5> QED
          BY <2>u, <5>1
      <4>2. CASE d # Now
        BY <2>t, <3>1, <4>2, LoggedFields
      <4> QED
        BY <4>1, <4>2
    <3> QED
      BY <2>u, <3>2
  <2>3. ASSUME NEW m \in Markets, NEW side \in Sides, NEW q \in Quantities,
               NEW p \in Prices, Enter(m, side, q, p)
        PROVE  history[d].pnl - lost[d].pnl > -MAX_DAILY_LOSS_CENTS
    <3>1. alive /\ ~ new_entries_blocked
      BY <2>3 DEF Enter
    <3>2. d = Now
      BY <2>t, <2>3, <2>u, EnterLogs, LoggedFields
    <3>3. PnlToday > -MAX_DAILY_LOSS_CENTS
      <4>1. ~ (PnlToday <= -MAX_DAILY_LOSS_CENTS)
        BY <3>1 DEF new_entries_blocked
      <4>2. PnlToday \in Int /\ -MAX_DAILY_LOSS_CENTS \in Int
        BY <2>t, FiguresToday, ConfigAssumption
      <4> QED
        BY <4>1, <4>2
    <3>4. PnlToday = tradeLog[d].pnl + Buffered[d].pnl
      BY <3>1, <3>2, TodayMatches
    <3>5. history[d].pnl = tradeLog[d].pnl + Buffered[d].pnl + lost[d].pnl
      BY DEF ConservedInv, RowsConserved
    <3> QED
      BY <2>t, <3>3, <3>4, <3>5, RowFields
  <2>4. CASE \/ Start \/ Stop \/ Crash \/ NextDay
             \/ alive /\ (GetCurrentDatetime \/ ResetDailyIfNeeded \/ EndCycle)
    BY <2>1, <2>4 DEF Start, Stop, Crash, MemoryGone, NextDay, GetCurrentDatetime,
                      ResetDailyIfNeeded, EndCycle
  <2> QED
    BY <2>2, <2>3, <2>4 DEF Next
<1> QED
  BY InitStats, NextStats, InitConserved, NextConserved, <1>1, PTL DEF Spec, LossGate
=============================================================================
