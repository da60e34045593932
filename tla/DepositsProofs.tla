--------------------------- MODULE DepositsProofs ---------------------------
(***************************************************************************)
(* Proofs about Deposits for any monitors, agents, transfers, amounts,     *)
(* confirmations and height of the chain.                                  *)
(*                                                                         *)
(* First the rows of the transactions and the cursors (IInv), then the     *)
(* balances (LedgerInv): with the cursor rule a batch has all transfers of *)
(* a transaction or none, so a row is always about the first transfer to   *)
(* an agent, and what a poll books can be followed transaction by          *)
(* transaction.                                                            *)
(***************************************************************************)
EXTENDS Deposits, SumsProofs, TLAPS

\* The part of the type invariant that does not depend on sums
RowsTypeOK ==
    /\ top \in Heights
    /\ height \in [Transfers -> Heights]
    /\ row \in [TxHashes -> Row]
    /\ saved \in Heights
    /\ monitor \in [Monitors -> MonitorState]

\* Blocks and cursors are at most as high as the chain.  A poll under way has asked for
\* everything from its cursor up to the height it asked at, and no row
\* disappears after it was read.
PollsAreComplete ==
    /\ \A t \in Transfers : height[t] <= top
    /\ saved <= top
    /\ \A m \in Monitors : monitor[m] # Down => monitor[m].cursor <= top
    /\ \A m \in Monitors : monitor[m].pc = "polling" =>
        /\ monitor[m].at <= top
        /\ monitor[m].batch = {t \in Transfers : /\ height[t] \in 1..monitor[m].at
                                                 /\ height[t] >= monitor[m].cursor}
        /\ \A h \in TxHashes : monitor[m].seen[h] # NoRow => row[h] # NoRow

\* Of a transaction below a cursor there is a row, be it of which transfer it may
HasRows(cursor) ==
    \A t \in Transfers : (height[t] \in 1..cursor - 1 /\ Owner[t] # NoAgent) => row[TxHash[t]] # NoRow
PassedHaveRows ==
    /\ HasRows(saved)
    /\ \A m \in Monitors : monitor[m] # Down => HasRows(monitor[m].cursor)

IInv == RowsTypeOK /\ PollsAreComplete /\ PassedHaveRows

(***************************************************************************)
(* Smallest and largest elements                                           *)
(***************************************************************************)

\* The smallest element of a set of natural numbers is in it.
LEMMA MinExists ==
    ASSUME NEW S \in SUBSET Nat, S # {}
    PROVE  Min(S) \in S
<1>1. PICK x \in S : \A y \in S : ~(<<y, x>> \in LessThan)
  BY LessThanWellFounded, WFMin
<1>2. \A y \in S : x <= y
  <2>. TAKE y \in S
  <2>1. ~(y < x)
    BY <1>1, LessThanMeans, Zenon
  <2>. QED
    BY <2>1
<1>. QED
  BY <1>2 DEF Min

\* A set of heights that is not empty has a largest one.
LEMMA MaxExists ==
    ASSUME NEW n \in Nat, NEW S \in SUBSET (0..n), S # {}
    PROVE  Max(S) \in S
<1>. DEFINE Bounds == {b \in Nat : \A y \in S : y <= b}
<1>1. Bounds \in SUBSET Nat /\ n \in Bounds
  OBVIOUS
<1>2. PICK x \in Bounds : \A y \in Bounds : ~(<<y, x>> \in LessThan)
  BY <1>1, LessThanWellFounded, WFMin
<1>3. \A b \in Bounds : x <= b
  <2>. TAKE b \in Bounds
  <2>1. ~(b < x)
    BY <1>2, LessThanMeans, Zenon
  <2>. QED
    BY <2>1
<1>4. x \in S
  <2>. SUFFICES ASSUME x \notin S PROVE FALSE
    OBVIOUS
  <2>1. PICK y \in S : TRUE
    OBVIOUS
  <2>2. x \in Nat /\ x > 0
    BY <2>1
  <2>3. \A z \in S : z <= x - 1
    OBVIOUS
  <2>4. x - 1 \in Bounds
    BY <2>2, <2>3
  <2>. QED
    BY <1>3, <2>2, <2>4
<1>. QED
  BY <1>4 DEF Max

\* The cursor after a batch is the old one or the height of a transfer in it.
LEMMA CursorAfter ==
    ASSUME RowsTypeOK, NEW cursor \in Heights, NEW batch \in SUBSET Transfers
    PROVE  /\ MaxHeight(cursor, batch) \in Heights
           /\ MaxHeight(cursor, batch) = cursor
                \/ \E t \in batch : MaxHeight(cursor, batch) = height[t]
<1>. DEFINE S == {cursor} \cup {height[t] : t \in batch}
<1>1. S \in SUBSET (0..TopHeight) /\ S # {}
  BY DEF RowsTypeOK, Heights
<1>2. Max(S) \in S
  BY <1>1, MaxExists, TransfersAssumption
<1>. QED
  BY <1>1, <1>2 DEF MaxHeight, Heights

(***************************************************************************)
(* Rows and monitors                                                       *)
(***************************************************************************)

\* Rows that are created or confirmed are rows.
LEMMA RowFacts ==
    /\ NoRow \in Row
    /\ \A t \in Transfers, s \in {"PENDING", "CONFIRMED"} :
            RowOf(t, s) \in Row /\ RowOf(t, s) # NoRow
    /\ \A r \in Row : r # NoRow =>
            [r EXCEPT !.status = "CONFIRMED"] \in Row /\ [r EXCEPT !.status = "CONFIRMED"] # NoRow
<1>1. NoRow \in Row
  BY DEF Row
<1>2. ASSUME NEW t \in Transfers, NEW s \in {"PENDING", "CONFIRMED"}
      PROVE  RowOf(t, s) \in Row /\ RowOf(t, s) # NoRow
  <2>1. RowOf(t, s).status # NoRow.status
    BY DEF RowOf, NoRow
  <2>. QED
    BY <2>1 DEF Row
<1>3. ASSUME NEW r \in Row, r # NoRow
      PROVE  [r EXCEPT !.status = "CONFIRMED"] \in Row /\ [r EXCEPT !.status = "CONFIRMED"] # NoRow
  <2>1. PICK t \in Transfers, s \in {"PENDING", "CONFIRMED"} : r = RowOf(t, s)
    BY <1>3 DEF Row
  <2>2. [r EXCEPT !.status = "CONFIRMED"] = RowOf(t, "CONFIRMED")
    BY <2>1 DEF RowOf
  <2>. QED
    BY <1>2, <2>2
<1>. QED
  BY <1>1, <1>2, <1>3

\* What a monitor is doing, by its state
LEMMA MonitorFacts ==
    ASSUME NEW s \in MonitorState
    PROVE  /\ s # Down => s.cursor \in Heights
           /\ s.pc = "polling" =>
                /\ s # Down
                /\ s.at \in Heights /\ s.batch \in SUBSET Transfers
                /\ s.seen \in [TxHashes -> Row]
           /\ s.pc = "waiting" => s # Down
<1>1. CASE s = Down
  BY <1>1 DEF Down
<1>2. CASE \E c \in Heights : s = Waiting(c)
  <2>1. PICK c \in Heights : s = [pc |-> "waiting", cursor |-> c]
    BY <1>2 DEF Waiting
  <2>2. s.pc = "waiting" /\ s.cursor = c
    BY <2>1
  <2>3. s.pc # Down.pc
    BY <2>2 DEF Down
  <2>. QED
    BY <2>2, <2>3
<1>3. CASE s \in [pc : {"polling"}, cursor : Heights, at : Heights,
                  batch : SUBSET Transfers, seen : [TxHashes -> Row]]
  BY <1>3 DEF Down
<1>. QED
  BY <1>1, <1>2, <1>3 DEF MonitorState

\* The states a monitor is put in
LEMMA StatesOfAMonitor ==
    /\ Down \in MonitorState
    /\ \A c \in Heights :
        /\ Waiting(c) \in MonitorState /\ Waiting(c) # Down
        /\ Waiting(c).pc = "waiting" /\ Waiting(c).cursor = c
<1>1. \A c \in Heights : Waiting(c).pc # Down.pc
  BY DEF Waiting, Down
<1>2. \A c \in Heights : Waiting(c) # Down
  BY <1>1
<1>. QED
  BY <1>2 DEF MonitorState, Waiting

\* The transaction of a poll records every transfer of an agent in its batch,
\* and loses no row.
LEMMA PollRecords ==
    ASSUME RowsTypeOK, NEW batch \in SUBSET Transfers, NEW at \in Heights,
           NEW seen \in [TxHashes -> Row],
           \A h \in TxHashes : seen[h] # NoRow => row[h] # NoRow
    PROVE  /\ RowsAfter(batch, at, seen) \in [TxHashes -> Row]
           /\ \A h \in TxHashes : row[h] # NoRow => RowsAfter(batch, at, seen)[h] # NoRow
           /\ \A t \in batch : Owner[t] # NoAgent =>
                    RowsAfter(batch, at, seen)[TxHash[t]] # NoRow
<1>. DEFINE after == RowsAfter(batch, at, seen)
<1>1. ASSUME NEW h \in TxHashes
      PROVE  /\ after[h] \in Row
             /\ row[h] # NoRow \/ Inserts(h, batch, seen) => after[h] # NoRow
  <2>1. row[h] \in Row /\ seen[h] \in Row
    BY DEF RowsTypeOK
  <2>2. CASE Inserts(h, batch, seen)
    <3>0. ~Confirms(h, batch, at, seen)
      BY <2>2 DEF Inserts, Confirms, Found, NoRow
    <3>1. after[h] = NewRow(h, batch, at)
      BY <2>2, <3>0 DEF RowsAfter
    <3>2. Matched(h, batch) \in SUBSET Nat /\ Matched(h, batch) # {}
      BY <2>2, TransfersAssumption DEF Inserts, Matched
    <3>3. Min(Matched(h, batch)) \in Transfers
      BY <3>2, MinExists DEF Matched
    <3>. QED
      BY <3>1, <3>3, RowFacts DEF NewRow
  <2>3. CASE ~Inserts(h, batch, seen) /\ Confirms(h, batch, at, seen)
    <3>1. after[h] = [row[h] EXCEPT !.status = "CONFIRMED"]
      BY <2>3 DEF RowsAfter
    <3>2. row[h] # NoRow
      BY <2>3 DEF Confirms, Found, NoRow
    <3>. QED
      BY <2>1, <3>1, <3>2, RowFacts
  <2>4. CASE ~Inserts(h, batch, seen) /\ ~Confirms(h, batch, at, seen)
    <3>1. after[h] = row[h]
      BY <2>4 DEF RowsAfter
    <3>. QED
      BY <2>1, <2>4, <3>1
  <2>. QED
    BY <2>2, <2>3, <2>4
<1>2. after \in [TxHashes -> Row]
  BY <1>1 DEF RowsAfter
<1>3. ASSUME NEW t \in batch, Owner[t] # NoAgent
      PROVE  after[TxHash[t]] # NoRow
  <2>1. TxHash[t] \in TxHashes /\ t \in Matched(TxHash[t], batch)
    BY <1>3 DEF TxHashes, Matched
  <2>2. row[TxHash[t]] # NoRow \/ Inserts(TxHash[t], batch, seen)
    BY <2>1 DEF Inserts
  <2>. QED
    BY <1>1, <2>1, <2>2
<1>. QED
  BY <1>1, <1>2, <1>3

\* A row that was read at any moment of the poll is still there.
LEMMA ReadingsAreOld ==
    ASSUME RowsTypeOK, NEW old \in [TxHashes -> Row],
           \A h \in TxHashes : old[h] # NoRow => row[h] # NoRow,
           NEW seen \in Readings(old)
    PROVE  /\ seen \in [TxHashes -> Row]
           /\ \A h \in TxHashes : seen[h] # NoRow => row[h] # NoRow
<1>1. PICK late \in SUBSET {h \in TxHashes : row[h] # old[h]} :
          seen = [h \in TxHashes |-> IF h \in late THEN row[h] ELSE old[h]]
  BY DEF Readings
<1>. QED
  BY <1>1 DEF RowsTypeOK

(***************************************************************************)
(* The steps                                                               *)
(***************************************************************************)

\* A block is mined.
LEMMA MineKeeps ==
    ASSUME IInv, NEW hashes \in SUBSET TxHashes, Mine(hashes)
    PROVE  IInv'
<1>. USE DEF IInv, RowsTypeOK, PollsAreComplete, Heights
<1>1. top \in Nat /\ top' = top + 1 /\ top + 1 <= TopHeight
  BY TransfersAssumption DEF Mine
<1>2. /\ row' = row /\ saved' = saved /\ monitor' = monitor
  BY DEF Mine, ledger
<1>3. \A t \in Transfers :
          height'[t] = height[t] \/ (height[t] = 0 /\ height'[t] = top + 1)
  BY DEF Mine
<1>4. \A t \in Transfers : height[t] \in Nat
  BY TransfersAssumption
<1>5. height' \in [Transfers -> Heights]
  BY <1>1, TransfersAssumption DEF Mine
<1>6. \A t \in Transfers : height'[t] <= top'
  BY <1>1, <1>3, <1>4
<1>7. saved \in Nat
  BY TransfersAssumption
<1>8. \A m \in Monitors : monitor[m] # Down => monitor[m].cursor \in Nat
  BY MonitorFacts, TransfersAssumption
<1>9. PassedHaveRows'
  BY <1>1, <1>2, <1>3, <1>4, <1>7, <1>8 DEF PassedHaveRows, HasRows
<1>10. ASSUME NEW m \in Monitors, monitor[m].pc = "polling"
       PROVE  monitor[m].batch = {t \in Transfers : /\ height'[t] \in 1..monitor[m].at
                                                    /\ height'[t] >= monitor[m].cursor}
  <2>1. monitor[m].at \in Nat /\ monitor[m].at <= top
    BY <1>10, MonitorFacts, TransfersAssumption
  <2>2. \A t \in Transfers : height'[t] \in 1..monitor[m].at
                                <=> height[t] \in 1..monitor[m].at
    BY <1>1, <1>3, <1>4, <2>1
  <2>3. \A t \in Transfers : height'[t] \in 1..monitor[m].at => height'[t] = height[t]
    BY <1>1, <1>3, <1>4, <2>1
  <2>. QED
    BY <1>10, <2>2, <2>3
<1>11. ASSUME NEW m \in Monitors, monitor[m].pc = "polling"
       PROVE  monitor[m].at <= top'
  BY <1>1, <1>11, MonitorFacts, TransfersAssumption
<1>. QED
  BY <1>1, <1>2, <1>5, <1>6, <1>7, <1>8, <1>9, <1>10, <1>11

\* A monitor that waits with a cursor nothing unrecorded is below.
LEMMA WaitingKeeps ==
    ASSUME IInv, NEW m \in Monitors, NEW c \in Heights, c <= top, HasRows(c),
           monitor' = [monitor EXCEPT ![m] = Waiting(c)],
           UNCHANGED <<top, height, row, saved>>
    PROVE  IInv'
<1>. USE DEF IInv, RowsTypeOK, PollsAreComplete
<1>1. /\ Waiting(c) \in MonitorState /\ Waiting(c).pc = "waiting" /\ Waiting(c).cursor = c
      /\ monitor'[m] = Waiting(c)
      /\ \A n \in Monitors \ {m} : monitor'[n] = monitor[n]
  BY StatesOfAMonitor
<1>2. RowsTypeOK'
  BY <1>1
<1>3. PollsAreComplete'
  BY <1>1
<1>4. HasRows(c)' /\ HasRows(saved)'
  BY DEF HasRows, PassedHaveRows
<1>5. \A n \in Monitors \ {m} : monitor'[n] # Down => HasRows(monitor[n].cursor)'
  BY <1>1 DEF HasRows, PassedHaveRows
<1>6. PassedHaveRows'
  BY <1>1, <1>4, <1>5 DEF PassedHaveRows
<1>. QED
  BY <1>2, <1>3, <1>6

\* A monitor starts at the saved height.
LEMMA StartKeeps ==
    ASSUME IInv, NEW m \in Monitors, Start(m)
    PROVE  IInv'
<1>1. saved \in Heights /\ saved <= top /\ HasRows(saved)
  BY DEF IInv, RowsTypeOK, PollsAreComplete, PassedHaveRows
<1>2. monitor' = [monitor EXCEPT ![m] = Waiting(saved)] /\ UNCHANGED <<top, height, row, saved>>
  BY DEF Start, ledger
<1>. QED
  BY <1>1, <1>2, WaitingKeeps

\* A poll fails.
LEMMA PollFailsKeeps ==
    ASSUME IInv, NEW m \in Monitors, PollFails(m)
    PROVE  IInv'
<1>. DEFINE c == monitor[m].cursor
<1>1. c \in Heights /\ c <= top /\ HasRows(c)
  <2>1. monitor[m] \in MonitorState /\ monitor[m].pc = "polling"
    BY DEF PollFails, IInv, RowsTypeOK
  <2>. QED
    BY <2>1, MonitorFacts DEF IInv, PollsAreComplete, PassedHaveRows
<1>2. monitor' = [monitor EXCEPT ![m] = Waiting(c)] /\ UNCHANGED <<top, height, row, saved>>
  BY DEF PollFails, AfterFailure, ledger
<1>. HIDE DEF c
<1>. QED
  BY <1>1, <1>2, WaitingKeeps

\* A monitor crashes.
LEMMA CrashKeeps ==
    ASSUME IInv, NEW m \in Monitors, Crash(m)
    PROVE  IInv'
<1>. USE DEF IInv, RowsTypeOK, PollsAreComplete
<1>1. /\ Down \in MonitorState /\ Down.pc = "down"
      /\ monitor'[m] = Down
      /\ \A n \in Monitors \ {m} : monitor'[n] = monitor[n]
      /\ monitor' \in [Monitors -> MonitorState]
      /\ UNCHANGED <<top, height, row, saved>>
  BY StatesOfAMonitor DEF Crash, Down, ledger
<1>2. RowsTypeOK'
  BY <1>1
<1>3. PollsAreComplete'
  BY <1>1
<1>4. PassedHaveRows'
  BY <1>1 DEF HasRows, PassedHaveRows
<1>. QED
  BY <1>2, <1>3, <1>4

\* A poll reads the transfers and the rows.
LEMMA BeginPollKeeps ==
    ASSUME IInv, NEW m \in Monitors, BeginPoll(m)
    PROVE  IInv'
<1>. USE DEF IInv, RowsTypeOK, PollsAreComplete
<1>. DEFINE cursor == monitor[m].cursor
            poll == Polling(cursor, top, Incoming(cursor))
<1>1. cursor \in Heights /\ monitor[m] # Down
  BY MonitorFacts DEF BeginPoll
<1>2. /\ monitor' = [monitor EXCEPT ![m] = poll]
      /\ UNCHANGED <<top, height, row, saved>>
  BY DEF BeginPoll, ledger
<1>3. poll.pc = "polling" /\ poll.cursor = cursor /\ poll.at = top
        /\ poll.batch = Incoming(cursor) /\ poll.seen = row
  BY DEF Polling
<1>4. poll \in MonitorState /\ poll # Down
  <2>1. Incoming(cursor) \in SUBSET Transfers
    BY DEF Incoming
  <2>2. poll.pc # Down.pc
    BY <1>3 DEF Down
  <2>. QED
    BY <1>1, <2>1, <2>2 DEF MonitorState, Polling
<1>5. Incoming(cursor) = {t \in Transfers : height[t] \in 1..top /\ height[t] >= cursor}
  <2>1. \A t \in Transfers : height[t] # 0 <=> height[t] \in 1..top
    BY TransfersAssumption DEF Heights
  <2>. QED
    BY <2>1 DEF Incoming
<1>6. cursor <= top /\ HasRows(cursor)
  BY <1>1 DEF PassedHaveRows
<1>7. monitor'[m] = poll /\ (\A n \in Monitors \ {m} : monitor'[n] = monitor[n])
  BY <1>2
<1>8. RowsTypeOK'
  BY <1>2, <1>4
<1>. HIDE DEF poll
<1>9. PollsAreComplete'
  BY <1>2, <1>3, <1>5, <1>6, <1>7, TransfersAssumption DEF Heights
<1>10. PassedHaveRows'
  <2>1. \A n \in Monitors : monitor'[n] # Down => HasRows(monitor'[n].cursor)
    BY <1>3, <1>6, <1>7 DEF PassedHaveRows
  <2>. QED
    BY <1>2, <2>1 DEF HasRows, PassedHaveRows
<1>. QED
  BY <1>8, <1>9, <1>10

\* The new cursor passes what the old one had passed and what is in the batch.
LEMMA CommitPollKeeps ==
    ASSUME IInv, NEW m \in Monitors, CommitPoll(m)
    PROVE  IInv'
<1>. USE DEF IInv, RowsTypeOK, PollsAreComplete
<1>. DEFINE p == monitor[m]
            reached == MaxHeight(p.cursor, p.batch)
<1>1. /\ p.pc = "polling" /\ p # Down
      /\ p.cursor \in Heights /\ p.at \in Heights
      /\ p.batch \in SUBSET Transfers /\ p.seen \in [TxHashes -> Row]
  BY MonitorFacts DEF CommitPoll
<1>2. PICK seen \in Readings(p.seen) :
          /\ row' = RowsAfter(p.batch, p.at, seen)
          /\ saved' = reached
          /\ monitor' = [monitor EXCEPT ![m] = Waiting(reached)]
  BY DEF CommitPoll
<1>3. UNCHANGED <<top, height>>
  BY DEF CommitPoll
<1>4. \A h \in TxHashes : p.seen[h] # NoRow => row[h] # NoRow
  BY <1>1
<1>5. seen \in [TxHashes -> Row] /\ (\A h \in TxHashes : seen[h] # NoRow => row[h] # NoRow)
  BY <1>1, <1>4, ReadingsAreOld
<1>6. /\ row' \in [TxHashes -> Row]
      /\ \A h \in TxHashes : row[h] # NoRow => row'[h] # NoRow
      /\ \A t \in p.batch : Owner[t] # NoAgent => row'[TxHash[t]] # NoRow
  BY <1>1, <1>2, <1>5, PollRecords
<1>7. /\ reached \in Heights
      /\ reached = p.cursor \/ \E t \in p.batch : reached = height[t]
  BY <1>1, CursorAfter
<1>8. /\ p.batch = {t \in Transfers : height[t] \in 1..p.at /\ height[t] >= p.cursor}
      /\ p.at <= top /\ p.cursor <= top /\ HasRows(p.cursor)
  BY <1>1 DEF PassedHaveRows
<1>9. reached <= top
  BY <1>7, <1>8
<1>10. ASSUME NEW t \in Transfers, height[t] \in 1..reached - 1, Owner[t] # NoAgent
       PROVE  row'[TxHash[t]] # NoRow
  <2>1. TxHash[t] \in TxHashes /\ height[t] \in Nat
    BY TransfersAssumption DEF TxHashes, Heights
  <2>2. CASE height[t] < p.cursor
    BY <1>1, <1>6, <1>8, <1>10, <2>1, <2>2, TransfersAssumption DEF HasRows, Heights
  <2>3. CASE height[t] >= p.cursor
    <3>1. PICK u \in p.batch : reached = height[u]
      BY <1>1, <1>7, <1>10, <2>1, <2>3, TransfersAssumption DEF Heights
    <3>2. height[u] <= p.at
      BY <1>8
    <3>3. t \in p.batch
      BY <1>1, <1>7, <1>8, <1>10, <2>1, <2>3, <3>1, <3>2, TransfersAssumption DEF Heights
    <3>. QED
      BY <1>6, <1>10, <3>3
  <2>. QED
    BY <1>1, <2>1, <2>2, <2>3, TransfersAssumption DEF Heights
<1>. HIDE DEF reached
<1>11. /\ Waiting(reached) \in MonitorState /\ Waiting(reached).pc = "waiting"
       /\ Waiting(reached).cursor = reached
       /\ monitor'[m] = Waiting(reached)
       /\ \A n \in Monitors \ {m} : monitor'[n] = monitor[n]
  BY <1>2, <1>7, StatesOfAMonitor
<1>12. RowsTypeOK'
  BY <1>2, <1>3, <1>6, <1>7, <1>11
<1>13. ASSUME NEW n \in Monitors \ {m}, monitor[n].pc = "polling"
       PROVE  \A h \in TxHashes : monitor[n].seen[h] # NoRow => row'[h] # NoRow
  BY <1>6, <1>13
<1>14. PollsAreComplete'
  BY <1>2, <1>3, <1>9, <1>11, <1>13
<1>15. \A t \in Transfers :
           (height'[t] \in 1..reached - 1 /\ Owner[t] # NoAgent) => row'[TxHash[t]] # NoRow
  BY <1>3, <1>10
<1>16. ASSUME NEW n \in Monitors \ {m}, monitor[n] # Down
       PROVE  \A t \in Transfers :
                  (height'[t] \in 1..monitor[n].cursor - 1 /\ Owner[t] # NoAgent)
                      => row'[TxHash[t]] # NoRow
  <2>1. HasRows(monitor[n].cursor)
    BY <1>16 DEF PassedHaveRows
  <2>2. \A t \in Transfers : TxHash[t] \in TxHashes
    BY DEF TxHashes
  <2>3. ASSUME NEW t \in Transfers, height[t] \in 1..monitor[n].cursor - 1, Owner[t] # NoAgent
        PROVE  row'[TxHash[t]] # NoRow
    BY <1>6, <2>1, <2>2, <2>3 DEF HasRows
  <2>. QED
    BY <1>3, <2>3
<1>17. PassedHaveRows'
  <2>1. HasRows(saved)'
    BY <1>2, <1>15 DEF HasRows
  <2>2. ASSUME NEW n \in Monitors, monitor'[n] # Down
        PROVE  HasRows(monitor[n].cursor)'
    <3>1. CASE n = m
      BY <1>11, <1>15, <3>1 DEF HasRows
    <3>2. CASE n # m
      BY <1>11, <1>16, <2>2, <3>2 DEF HasRows
    <3>. QED
      BY <3>1, <3>2
  <2>. QED
    BY <2>1, <2>2 DEF PassedHaveRows
<1>. QED
  BY <1>12, <1>14, <1>17

\* The rows, the cursors and the polls are in order from the start.
LEMMA RowsStart == Init => IInv
<1>. SUFFICES ASSUME Init PROVE IInv
  OBVIOUS
<1>1. 0 \in Heights /\ NoRow \in Row /\ Down \in MonitorState /\ Down.pc = "down"
  BY TransfersAssumption, RowFacts, StatesOfAMonitor DEF Heights, Down
<1>2. RowsTypeOK
  BY <1>1 DEF Init, RowsTypeOK
<1>3. PollsAreComplete
  BY <1>1 DEF Init, PollsAreComplete
<1>4. PassedHaveRows
  BY DEF Init, PassedHaveRows, HasRows
<1>. QED
  BY <1>2, <1>3, <1>4 DEF IInv

\* Every step keeps them in order.
LEMMA RowsStep == IInv /\ [Next]_vars => IInv'
<1>. SUFFICES ASSUME IInv, [Next]_vars
              PROVE  IInv'
  OBVIOUS
<1>1. CASE \E hashes \in SUBSET TxHashes : Mine(hashes)
  BY <1>1, MineKeeps
<1>2. CASE LockExpires \/ UNCHANGED vars
  <2>1. UNCHANGED <<top, height, row, saved, monitor>>
    BY <1>2 DEF LockExpires, vars, ledger
  <2>. QED
    BY <2>1 DEF IInv, RowsTypeOK, PollsAreComplete, PassedHaveRows, HasRows
<1>3. CASE \E m \in Monitors : Start(m)
  BY <1>3, StartKeeps
<1>4. CASE \E m \in Monitors : BeginPoll(m)
  BY <1>4, BeginPollKeeps
<1>5. CASE \E m \in Monitors : CommitPoll(m)
  BY <1>5, CommitPollKeeps
<1>6. CASE \E m \in Monitors : PollFails(m)
  BY <1>6, PollFailsKeeps
<1>7. CASE \E m \in Monitors : Crash(m)
  BY <1>7, CrashKeeps
<1>. QED
  BY <1>1, <1>2, <1>3, <1>4, <1>5, <1>6, <1>7 DEF Next

\* The rows and the cursors are always right.
LEMMA RowsHold == Spec => []IInv
  BY RowsStart, RowsStep, PTL DEF Spec

(***************************************************************************)
(* The balances                                                            *)
(***************************************************************************)

\* A transaction is in one block.
OneBlock == \A t, u \in Transfers : TxHash[t] = TxHash[u] => height[t] = height[u]

\* The first transfer of a transaction to an agent: its row is about that one
OfTheFirst(rows) ==
    \A h \in TxHashes : rows[h] # NoRow =>
        /\ Matched(h, Transfers) # {}
        /\ \E s \in {"PENDING", "CONFIRMED"} : rows[h] = RowOf(First(h), s)

RowsAreOfTheFirst ==
    /\ OfTheFirst(row)
    /\ \A m \in Monitors : monitor[m].pc = "polling" => OfTheFirst(monitor[m].seen)

\* While no poll has outlived its lock, the one under way holds it and has
\* read the rows as they are.
OnePoll ==
    ~overlapped => \A m \in Monitors :
        monitor[m].pc = "polling" => lock = m /\ monitor[m].seen = row

LedgerInv ==
    /\ available \in [Agents -> Nat]
    /\ pending \in [Agents -> Nat]
    /\ lock \in Monitors \cup {Free}
    /\ overlapped \in BOOLEAN
    /\ OneBlock
    /\ RowsAreOfTheFirst
    /\ OnePoll
    /\ LedgerMatchesRows

\* There are finitely many transactions.
LEMMA FiniteHashes == IsFiniteSet(TxHashes)
<1>. DEFINE f == [t \in Transfers |-> TxHash[t]]
<1>1. f \in Surjection(Transfers, TxHashes)
  BY DEF Surjection, TxHashes
<1>. QED
  BY <1>1, FS_Surjection, TransfersAssumption

\* clear_pending_on_confirm never leaves less than nothing pending.
LEMMA Floor ==
    ASSUME NEW n \in Int
    PROVE  AtLeastZero(n) \in Nat /\ (n >= 0 => AtLeastZero(n) = n)
<1>1. CASE n >= 0
  <2>1. n \in {n, 0} /\ \A y \in {n, 0} : n >= y
    BY <1>1
  <2>2. \A x \in {n, 0} : (\A y \in {n, 0} : x >= y) => x = n
    BY <1>1
  <2>3. AtLeastZero(n) = n
    BY <2>1, <2>2, Zenon DEF AtLeastZero, Max
  <2>. QED
    BY <1>1, <2>3
<1>2. CASE n < 0
  <2>1. 0 \in {n, 0} /\ \A y \in {n, 0} : 0 >= y
    BY <1>2
  <2>2. \A x \in {n, 0} : (\A y \in {n, 0} : x >= y) => x = 0
    BY <1>2
  <2>3. AtLeastZero(n) = 0
    BY <2>1, <2>2, Zenon DEF AtLeastZero, Max
  <2>. QED
    BY <1>2, <2>3
<1>. QED
  BY <1>1, <1>2

\* The first transfer of a transaction is one to an agent.
LEMMA FirstFacts ==
    ASSUME NEW h \in TxHashes, Matched(h, Transfers) # {}
    PROVE  /\ First(h) \in Transfers
           /\ Owner[First(h)] \in Agents
           /\ Amount[First(h)] \in Nat
<1>1. Matched(h, Transfers) \in SUBSET Nat
  BY TransfersAssumption DEF Matched
<1>2. First(h) \in Matched(h, Transfers)
  BY <1>1, MinExists DEF First
<1>. QED
  BY <1>2, TransfersAssumption DEF Matched

\* A row of the first transfer, by its fields
LEMMA RowFields ==
    ASSUME NEW rows, OfTheFirst(rows), NEW h \in TxHashes, rows[h] # NoRow
    PROVE  /\ rows[h].status \in {"PENDING", "CONFIRMED"}
           /\ rows[h] = RowOf(First(h), rows[h].status)
           /\ rows[h].agent = Owner[First(h)] /\ rows[h].amount = Amount[First(h)]
           /\ rows[h].agent \in Agents /\ rows[h].amount \in Nat
<1>1. PICK s \in {"PENDING", "CONFIRMED"} : rows[h] = RowOf(First(h), s)
  BY DEF OfTheFirst
<1>2. rows[h].status = s /\ rows[h].agent = Owner[First(h)] /\ rows[h].amount = Amount[First(h)]
  BY <1>1 DEF RowOf
<1>3. Matched(h, Transfers) # {}
  BY DEF OfTheFirst
<1>. QED
  BY <1>1, <1>2, <1>3, FirstFacts

\* A poll that reads every row as it is or was, with a batch that has all the
\* transfers of a transaction to agents or none
Fitting(batch, seen) ==
    /\ OfTheFirst(row) /\ OfTheFirst(seen)
    /\ \A h \in TxHashes : /\ seen[h] # NoRow => row[h] # NoRow
                           /\ Matched(h, batch) # {} => Matched(h, batch) = Matched(h, Transfers)

\* What such a poll does to one transaction
LEMMA OneTransaction ==
    ASSUME NEW batch, NEW at, NEW seen, Fitting(batch, seen), NEW h \in TxHashes
    PROVE  LET after == RowsAfter(batch, at, seen)
               payee == Owner[Min(Handled(h, batch, seen))]
           IN  /\ Inserts(h, batch, seen) =>
                     /\ row[h] = NoRow /\ ~Confirms(h, batch, at, seen)
                     /\ Matched(h, Transfers) # {}
                     /\ NewRow(h, batch, at).status \in {"PENDING", "CONFIRMED"}
                     /\ NewRow(h, batch, at) = RowOf(First(h), NewRow(h, batch, at).status)
                     /\ after[h] = NewRow(h, batch, at)
               /\ Confirms(h, batch, at, seen) =>
                     /\ ~Inserts(h, batch, seen) /\ row[h] # NoRow
                     /\ Found(h, seen).amount = Amount[First(h)]
                     /\ payee \in Agents
                     /\ after[h] = RowOf(First(h), "CONFIRMED")
                     /\ seen[h] = row[h] => row[h].status = "PENDING" /\ payee = Owner[First(h)]
               /\ ~Inserts(h, batch, seen) /\ ~Confirms(h, batch, at, seen) => after[h] = row[h]
<1>. DEFINE after == RowsAfter(batch, at, seen)
            payee == Owner[Min(Handled(h, batch, seen))]
<1>0. /\ OfTheFirst(row) /\ OfTheFirst(seen)
      /\ seen[h] # NoRow => row[h] # NoRow
      /\ Matched(h, batch) # {} => Matched(h, batch) = Matched(h, Transfers)
  BY DEF Fitting
<1>1. ASSUME Inserts(h, batch, seen)
      PROVE  /\ row[h] = NoRow /\ ~Confirms(h, batch, at, seen)
             /\ Matched(h, Transfers) # {}
             /\ NewRow(h, batch, at).status \in {"PENDING", "CONFIRMED"}
             /\ NewRow(h, batch, at) = RowOf(First(h), NewRow(h, batch, at).status)
             /\ after[h] = NewRow(h, batch, at)
  <2>1. row[h] = NoRow /\ ~Confirms(h, batch, at, seen)
    BY <1>1 DEF Inserts, Confirms, Found, NoRow
  <2>2. Matched(h, batch) = Matched(h, Transfers) /\ Matched(h, Transfers) # {}
    BY <1>0, <1>1 DEF Inserts
  <2>3. \E s \in {"PENDING", "CONFIRMED"} : NewRow(h, batch, at) = RowOf(First(h), s)
    BY <2>2 DEF NewRow, First
  <2>4. /\ NewRow(h, batch, at).status \in {"PENDING", "CONFIRMED"}
        /\ NewRow(h, batch, at) = RowOf(First(h), NewRow(h, batch, at).status)
    BY <2>3 DEF RowOf
  <2>5. after[h] = NewRow(h, batch, at)
    BY <1>1, <2>1 DEF RowsAfter
  <2>. QED
    BY <2>1, <2>2, <2>4, <2>5
<1>2. ASSUME Confirms(h, batch, at, seen)
      PROVE  /\ ~Inserts(h, batch, seen) /\ row[h] # NoRow
             /\ Found(h, seen).amount = Amount[First(h)]
             /\ payee \in Agents
             /\ after[h] = RowOf(First(h), "CONFIRMED")
             /\ seen[h] = row[h] => row[h].status = "PENDING" /\ payee = Owner[First(h)]
  <2>1. Found(h, seen) # NoRow /\ row[h] # NoRow /\ ~Inserts(h, batch, seen)
    BY <1>0, <1>2 DEF Confirms, Found, Inserts, NoRow
  <2>2. Found(h, seen).amount = Amount[First(h)]
    BY <1>0, <2>1, RowFields DEF Found
  <2>3. payee \in Agents
    <3>1. Handled(h, batch, seen) \in SUBSET Matched(h, batch) /\ Handled(h, batch, seen) # {}
      BY <1>2 DEF Confirms, Handled
    <3>2. Matched(h, batch) = Matched(h, Transfers)
      BY <1>0, <3>1
    <3>3. Handled(h, batch, seen) \in SUBSET Nat
      BY <3>1, <3>2, TransfersAssumption DEF Matched
    <3>4. Min(Handled(h, batch, seen)) \in Matched(h, Transfers)
      BY <3>1, <3>2, <3>3, MinExists
    <3>. QED
      BY <3>4, TransfersAssumption DEF Matched
  <2>4. after[h] = RowOf(First(h), "CONFIRMED")
    <3>1. after[h] = [row[h] EXCEPT !.status = "CONFIRMED"]
      BY <1>2, <2>1 DEF RowsAfter
    <3>2. row[h] = RowOf(First(h), row[h].status)
      BY <1>0, <2>1, RowFields
    <3>. QED
      BY <3>1, <3>2 DEF RowOf
  <2>5. ASSUME seen[h] = row[h]
        PROVE  row[h].status = "PENDING" /\ payee = Owner[First(h)]
    <3>1. Found(h, seen) = row[h] /\ Handled(h, batch, seen) = Matched(h, batch)
      BY <2>1, <2>5 DEF Found, Handled, LostInsert
    <3>2. Matched(h, batch) = Matched(h, Transfers)
      BY <1>0, <1>2, <3>1 DEF Confirms
    <3>. QED
      BY <1>2, <3>1, <3>2 DEF Confirms, First
  <2>. QED
    BY <2>1, <2>2, <2>3, <2>4, <2>5
<1>3. ASSUME ~Inserts(h, batch, seen), ~Confirms(h, batch, at, seen)
      PROVE  after[h] = row[h]
  BY <1>3 DEF RowsAfter
<1>. QED
  BY <1>1, <1>2, <1>3

\* A transaction is in a batch as a whole.
LEMMA WholeTransactions ==
    ASSUME OneBlock, RowsTypeOK, PollsAreComplete, NEW m \in Monitors, monitor[m].pc = "polling",
           NEW h \in TxHashes, Matched(h, monitor[m].batch) # {}
    PROVE  Matched(h, monitor[m].batch) = Matched(h, Transfers)
<1>. DEFINE batch == monitor[m].batch
<1>1. batch = {t \in Transfers : height[t] \in 1..monitor[m].at /\ height[t] >= monitor[m].cursor}
  BY DEF PollsAreComplete
<1>2. PICK t \in batch : TxHash[t] = h
  BY DEF Matched
<1>3. \A u \in Transfers : TxHash[u] = h => height[u] = height[t]
  BY <1>1, <1>2 DEF OneBlock
<1>4. \A u \in Transfers : TxHash[u] = h => u \in batch
  BY <1>1, <1>2, <1>3
<1>. QED
  BY <1>1, <1>4 DEF Matched

\* Due, for any rows
Value(rows, status, a, h) ==
    IF rows[h].status = status /\ rows[h].agent = a THEN rows[h].amount ELSE 0
DueOf(rows, status, a) == SumFunctionOnSet([h \in TxHashes |-> Value(rows, status, a, h)], TxHashes)

\* What a row is worth is an amount.
LEMMA ValueIsNat ==
    ASSUME NEW rows, OfTheFirst(rows), NEW status \in {"PENDING", "CONFIRMED"}, NEW a, NEW h \in TxHashes
    PROVE  Value(rows, status, a, h) \in Nat
<1>1. CASE rows[h] = NoRow
  BY <1>1 DEF Value, NoRow
<1>2. CASE rows[h] # NoRow
  BY <1>2, RowFields DEF Value
<1>. QED
  BY <1>1, <1>2

\* A sum over some transactions as one over all
LEMMA OverAll ==
    ASSUME NEW T \in SUBSET TxHashes, NEW f, DOMAIN f = T, \A h \in T : f[h] \in Nat,
           NEW g, \A h \in TxHashes : g[h] = IF h \in T THEN f[h] ELSE 0
    PROVE  /\ SumFunction(f) = SumFunctionOnSet(g, TxHashes)
           /\ SumFunctionOnSet(g, TxHashes) \in Nat
<1>1. \A h \in T : f[h] \in Int
  OBVIOUS
<1>2. \A h \in TxHashes : g[h] \in Nat
  OBVIOUS
<1>3. SumFunctionOnSet(f, T) = SumFunctionOnSet(g, TxHashes)
  BY <1>1, FiniteHashes, SumPart
<1>4. SumFunctionOnSet(g, TxHashes) \in Nat
  BY <1>2, FiniteHashes, SumNat, Zenon
<1>. QED
  BY <1>3, <1>4 DEF SumFunction

\* What an agent is due is a sum over all transactions.
LEMMA DueIs ==
    ASSUME NEW rows, OfTheFirst(rows), NEW status \in {"PENDING", "CONFIRMED"}, NEW a
    PROVE  /\ DueOf(rows, status, a) \in Nat
           /\ SumFunction([h \in {h \in TxHashes : rows[h].status = status /\ rows[h].agent = a}
                                |-> rows[h].amount]) = DueOf(rows, status, a)
<1>. DEFINE T == {h \in TxHashes : rows[h].status = status /\ rows[h].agent = a}
            f == [h \in T |-> rows[h].amount]
            g == [h \in TxHashes |-> Value(rows, status, a, h)]
<1>1. \A h \in TxHashes : g[h] \in Nat
  BY ValueIsNat
<1>2. \A h \in TxHashes : g[h] = IF h \in T THEN f[h] ELSE 0
  BY DEF Value
<1>3. \A h \in T : f[h] \in Nat
  BY <1>1, <1>2
<1>4. T \in SUBSET TxHashes /\ DOMAIN f = T
  OBVIOUS
<1>. HIDE DEF T, f, g
<1>5. SumFunction(f) = SumFunctionOnSet(g, TxHashes) /\ SumFunctionOnSet(g, TxHashes) \in Nat
  BY <1>2, <1>3, <1>4, OverAll
<1>. QED
  BY <1>5 DEF DueOf, T, f, g

\* What a poll adds for an agent and takes from what it has pending is a sum
\* over all transactions, too.
Credit(a, batch, at, seen, h) ==
    (IF h \in Created(a, "CONFIRMED", batch, at, seen) THEN NewRow(h, batch, at).amount ELSE 0)
  + (IF h \in ConfirmedFor(a, batch, at, seen) THEN Found(h, seen).amount ELSE 0)
Arrival(a, batch, at, seen, h) ==
    IF h \in Created(a, "PENDING", batch, at, seen) THEN NewRow(h, batch, at).amount ELSE 0
Departure(a, batch, at, seen, h) ==
    IF h \in ConfirmedFor(a, batch, at, seen) THEN Found(h, seen).amount ELSE 0

\* The amounts a poll moves for one transaction
LEMMA AmountsMoved ==
    ASSUME NEW batch, NEW at, NEW seen, Fitting(batch, seen), NEW h \in TxHashes
    PROVE  /\ Inserts(h, batch, seen) => NewRow(h, batch, at).amount \in Nat
           /\ Confirms(h, batch, at, seen) => Found(h, seen).amount \in Nat
<1>1. ASSUME Inserts(h, batch, seen)
      PROVE  NewRow(h, batch, at).amount \in Nat
  <2>1. NewRow(h, batch, at) = RowOf(First(h), NewRow(h, batch, at).status) /\ Matched(h, Transfers) # {}
    BY <1>1, OneTransaction
  <2>2. RowOf(First(h), NewRow(h, batch, at).status).amount = Amount[First(h)]
    BY DEF RowOf
  <2>. QED
    BY <2>1, <2>2, FirstFacts
<1>2. ASSUME Confirms(h, batch, at, seen)
      PROVE  Found(h, seen).amount \in Nat
  <2>1. Found(h, seen).amount = Amount[First(h)] /\ row[h] # NoRow
    BY <1>2, OneTransaction
  <2>. QED
    BY <2>1, RowFields DEF Fitting
<1>. QED
  BY <1>1, <1>2

\* What a poll moves for an agent, transaction by transaction
LEMMA MovedSums ==
    ASSUME NEW batch, NEW at, NEW seen, Fitting(batch, seen), NEW a
    PROVE  /\ Deposited(a, batch, at, seen)
                = SumFunctionOnSet([h \in TxHashes |-> Credit(a, batch, at, seen, h)], TxHashes)
           /\ Added(a, batch, at, seen)
                = SumFunctionOnSet([h \in TxHashes |-> Arrival(a, batch, at, seen, h)], TxHashes)
           /\ Cleared(a, batch, at, seen)
                = SumFunctionOnSet([h \in TxHashes |-> Departure(a, batch, at, seen, h)], TxHashes)
           /\ Deposited(a, batch, at, seen) \in Nat
           /\ Added(a, batch, at, seen) \in Nat
           /\ Cleared(a, batch, at, seen) \in Nat
           /\ \A h \in TxHashes : /\ Credit(a, batch, at, seen, h) \in Nat
                                  /\ Arrival(a, batch, at, seen, h) \in Nat
                                  /\ Departure(a, batch, at, seen, h) \in Nat
<1>. DEFINE C == Created(a, "CONFIRMED", batch, at, seen)
            P == Created(a, "PENDING", batch, at, seen)
            D == ConfirmedFor(a, batch, at, seen)
            fc == [h \in C |-> NewRow(h, batch, at).amount]
            fp == [h \in P |-> NewRow(h, batch, at).amount]
            fd == [h \in D |-> Found(h, seen).amount]
            gc == [h \in TxHashes |-> IF h \in C THEN NewRow(h, batch, at).amount ELSE 0]
            gp == [h \in TxHashes |-> Arrival(a, batch, at, seen, h)]
            gd == [h \in TxHashes |-> Departure(a, batch, at, seen, h)]
            gs == [h \in TxHashes |-> Credit(a, batch, at, seen, h)]
<1>1. C \in SUBSET TxHashes /\ P \in SUBSET TxHashes /\ D \in SUBSET TxHashes
  BY DEF Created, ConfirmedFor
<1>2. /\ \A h \in C : NewRow(h, batch, at).amount \in Nat
      /\ \A h \in P : NewRow(h, batch, at).amount \in Nat
      /\ \A h \in D : Found(h, seen).amount \in Nat
  BY AmountsMoved DEF Created, ConfirmedFor
<1>3. SumFunction(fc) = SumFunctionOnSet(gc, TxHashes) /\ SumFunctionOnSet(gc, TxHashes) \in Nat
  <2>1. DOMAIN fc = C /\ (\A h \in C : fc[h] \in Nat)
    BY <1>2
  <2>2. \A h \in TxHashes : gc[h] = IF h \in C THEN fc[h] ELSE 0
    OBVIOUS
  <2>. HIDE DEF C, fc, gc
  <2>. QED
    BY <1>1, <2>1, <2>2, OverAll
<1>4. SumFunction(fp) = SumFunctionOnSet(gp, TxHashes) /\ SumFunctionOnSet(gp, TxHashes) \in Nat
  <2>1. DOMAIN fp = P /\ (\A h \in P : fp[h] \in Nat)
    BY <1>2
  <2>2. \A h \in TxHashes : gp[h] = IF h \in P THEN fp[h] ELSE 0
    BY DEF Arrival
  <2>. HIDE DEF P, fp, gp
  <2>. QED
    BY <1>1, <2>1, <2>2, OverAll
<1>5. SumFunction(fd) = SumFunctionOnSet(gd, TxHashes) /\ SumFunctionOnSet(gd, TxHashes) \in Nat
  <2>1. DOMAIN fd = D /\ (\A h \in D : fd[h] \in Nat)
    BY <1>2
  <2>2. \A h \in TxHashes : gd[h] = IF h \in D THEN fd[h] ELSE 0
    BY DEF Departure
  <2>. HIDE DEF D, fd, gd
  <2>. QED
    BY <1>1, <2>1, <2>2, OverAll
<1>6. \A h \in TxHashes : gc[h] \in Nat /\ gp[h] \in Nat /\ gd[h] \in Nat
  BY <1>2 DEF Arrival, Departure
<1>7. \A h \in TxHashes : gs[h] = gc[h] + gd[h]
  BY DEF Credit, Departure
<1>8. \A h \in TxHashes : gs[h] \in Nat
  BY <1>6, <1>7
<1>. HIDE DEF C, P, D, gc, gs, gp, gd
<1>9. SumFunctionOnSet(gs, TxHashes) = SumFunctionOnSet(gc, TxHashes) + SumFunctionOnSet(gd, TxHashes)
  BY <1>6, <1>7, FiniteHashes, SumPlus
<1>10. Deposited(a, batch, at, seen) = SumFunction(fc) + SumFunction(fd)
  BY DEF Deposited, C, D
<1>11. Added(a, batch, at, seen) = SumFunction(fp) /\ Cleared(a, batch, at, seen) = SumFunction(fd)
  BY DEF Added, Cleared, P, D
<1>. HIDE DEF fc, fp, fd
<1>12. /\ Deposited(a, batch, at, seen) = SumFunctionOnSet(gs, TxHashes)
       /\ Deposited(a, batch, at, seen) \in Nat
  BY <1>3, <1>5, <1>9, <1>10
<1>13. /\ Added(a, batch, at, seen) = SumFunctionOnSet(gp, TxHashes)
       /\ Added(a, batch, at, seen) \in Nat
       /\ Cleared(a, batch, at, seen) = SumFunctionOnSet(gd, TxHashes)
       /\ Cleared(a, batch, at, seen) \in Nat
  BY <1>4, <1>5, <1>11
<1>. QED
  BY <1>6, <1>8, <1>12, <1>13 DEF gs, gp, gd

\* The rows after a poll are still of the first transfers.
LEMMA AfterIsOfTheFirst ==
    ASSUME NEW batch, NEW at, NEW seen, Fitting(batch, seen)
    PROVE  OfTheFirst(RowsAfter(batch, at, seen))
<1>. DEFINE after == RowsAfter(batch, at, seen)
<1>. SUFFICES ASSUME NEW h \in TxHashes, after[h] # NoRow
              PROVE  /\ Matched(h, Transfers) # {}
                     /\ \E s \in {"PENDING", "CONFIRMED"} : after[h] = RowOf(First(h), s)
  BY DEF OfTheFirst
<1>1. CASE Inserts(h, batch, seen)
  BY <1>1, OneTransaction
<1>2. CASE Confirms(h, batch, at, seen)
  <2>1. row[h] # NoRow /\ after[h] = RowOf(First(h), "CONFIRMED")
    BY <1>2, OneTransaction
  <2>. QED
    BY <2>1 DEF Fitting, OfTheFirst
<1>3. CASE ~Inserts(h, batch, seen) /\ ~Confirms(h, batch, at, seen)
  <2>1. after[h] = row[h]
    BY <1>3, OneTransaction
  <2>. QED
    BY <2>1 DEF Fitting, OfTheFirst
<1>. QED
  BY <1>1, <1>2, <1>3

\* What one transaction changes when the poll reads the rows as they are
LEMMA OneTransactionBooked ==
    ASSUME NEW batch, NEW at, NEW seen, Fitting(batch, seen), NEW a,
           NEW h \in TxHashes, seen[h] = row[h]
    PROVE  LET after == RowsAfter(batch, at, seen)
           IN  /\ Value(after, "CONFIRMED", a, h)
                     = Value(row, "CONFIRMED", a, h) + Credit(a, batch, at, seen, h)
               /\ Value(after, "PENDING", a, h) + Departure(a, batch, at, seen, h)
                     = Value(row, "PENDING", a, h) + Arrival(a, batch, at, seen, h)
<1>. DEFINE after == RowsAfter(batch, at, seen)
            new == NewRow(h, batch, at)
            payee == Owner[Min(Handled(h, batch, seen))]
<1>1. CASE Inserts(h, batch, seen)
  <2>1. /\ ~Confirms(h, batch, at, seen) /\ row[h] = NoRow
        /\ after[h] = new /\ new.status \in {"PENDING", "CONFIRMED"}
    BY <1>1, OneTransaction
  <2>2. row[h].status = "NONE"
    BY <2>1 DEF NoRow
  <2>3. new.amount \in Nat
    BY <1>1, AmountsMoved
  <2>4. /\ h \in Created(a, "CONFIRMED", batch, at, seen) <=> new.status = "CONFIRMED" /\ new.agent = a
        /\ h \in Created(a, "PENDING", batch, at, seen) <=> new.status = "PENDING" /\ new.agent = a
        /\ h \notin ConfirmedFor(a, batch, at, seen)
    BY <1>1, <2>1 DEF Created, ConfirmedFor
  <2>. HIDE DEF after, new
  <2>. QED
    BY <2>1, <2>2, <2>3, <2>4 DEF Value, Credit, Arrival, Departure, new, after
<1>2. CASE Confirms(h, batch, at, seen)
  <2>1. /\ ~Inserts(h, batch, seen) /\ row[h] # NoRow /\ payee = Owner[First(h)]
        /\ Found(h, seen).amount = Amount[First(h)]
        /\ after[h] = RowOf(First(h), "CONFIRMED") /\ row[h].status = "PENDING"
    BY <1>2, OneTransaction
  <2>2. row[h].agent = Owner[First(h)] /\ row[h].amount = Amount[First(h)] /\ row[h].amount \in Nat
    BY <2>1, RowFields DEF Fitting
  <2>3. after[h].status = "CONFIRMED" /\ after[h].agent = Owner[First(h)] /\ after[h].amount = Amount[First(h)]
    BY <2>1 DEF RowOf
  <2>4. /\ h \notin Created(a, "CONFIRMED", batch, at, seen)
        /\ h \notin Created(a, "PENDING", batch, at, seen)
        /\ h \in ConfirmedFor(a, batch, at, seen) <=> Owner[First(h)] = a
    BY <1>2, <2>1 DEF Created, ConfirmedFor
  <2>. HIDE DEF after, payee
  <2>. QED
    BY <2>1, <2>2, <2>3, <2>4 DEF Value, Credit, Arrival, Departure, after
<1>3. CASE ~Inserts(h, batch, seen) /\ ~Confirms(h, batch, at, seen)
  <2>1. after[h] = row[h]
    BY <1>3, OneTransaction
  <2>2. /\ h \notin Created(a, "CONFIRMED", batch, at, seen)
        /\ h \notin Created(a, "PENDING", batch, at, seen)
        /\ h \notin ConfirmedFor(a, batch, at, seen)
    BY <1>3 DEF Created, ConfirmedFor
  <2>3. Value(row, "CONFIRMED", a, h) \in Nat /\ Value(row, "PENDING", a, h) \in Nat
    BY ValueIsNat DEF Fitting
  <2>4. /\ Value(after, "CONFIRMED", a, h) = Value(row, "CONFIRMED", a, h)
        /\ Value(after, "PENDING", a, h) = Value(row, "PENDING", a, h)
    BY <2>1 DEF Value
  <2>5. /\ Credit(a, batch, at, seen, h) = 0
        /\ Arrival(a, batch, at, seen, h) = 0
        /\ Departure(a, batch, at, seen, h) = 0
    BY <2>2 DEF Credit, Arrival, Departure
  <2>. QED
    BY <2>3, <2>4, <2>5
<1>. QED
  BY <1>1, <1>2, <1>3

\* A poll that reads the rows as they are books exactly what becomes due.
LEMMA PollIsBooked ==
    ASSUME NEW batch, NEW at, NEW seen, Fitting(batch, seen), NEW a,
           \A h \in TxHashes : seen[h] = row[h]
    PROVE  LET after == RowsAfter(batch, at, seen)
           IN  /\ DueOf(after, "CONFIRMED", a)
                     = DueOf(row, "CONFIRMED", a) + Deposited(a, batch, at, seen)
               /\ DueOf(after, "PENDING", a)
                     = DueOf(row, "PENDING", a) + Added(a, batch, at, seen) - Cleared(a, batch, at, seen)
<1>. DEFINE after == RowsAfter(batch, at, seen)
            c0 == [h \in TxHashes |-> Value(row, "CONFIRMED", a, h)]
            c1 == [h \in TxHashes |-> Value(after, "CONFIRMED", a, h)]
            p0 == [h \in TxHashes |-> Value(row, "PENDING", a, h)]
            p1 == [h \in TxHashes |-> Value(after, "PENDING", a, h)]
            cr == [h \in TxHashes |-> Credit(a, batch, at, seen, h)]
            ar == [h \in TxHashes |-> Arrival(a, batch, at, seen, h)]
            de == [h \in TxHashes |-> Departure(a, batch, at, seen, h)]
            all == [h \in TxHashes |-> p1[h] + de[h]]
            S(f) == SumFunctionOnSet(f, TxHashes)
<1>1. OfTheFirst(row) /\ OfTheFirst(after)
  BY AfterIsOfTheFirst DEF Fitting
<1>2. \A h \in TxHashes : c0[h] \in Nat /\ c1[h] \in Nat /\ p0[h] \in Nat /\ p1[h] \in Nat
  BY <1>1, ValueIsNat
<1>3. /\ Deposited(a, batch, at, seen) = S(cr) /\ Added(a, batch, at, seen) = S(ar)
      /\ Cleared(a, batch, at, seen) = S(de)
      /\ S(cr) \in Nat /\ S(ar) \in Nat /\ S(de) \in Nat
  BY MovedSums
<1>4. \A h \in TxHashes : cr[h] \in Nat /\ ar[h] \in Nat /\ de[h] \in Nat
  BY MovedSums
<1>5. \A h \in TxHashes : c1[h] = c0[h] + cr[h] /\ p1[h] + de[h] = p0[h] + ar[h]
  BY OneTransactionBooked
<1>6. /\ DueOf(row, "CONFIRMED", a) = S(c0) /\ DueOf(row, "PENDING", a) = S(p0)
      /\ DueOf(after, "CONFIRMED", a) = S(c1) /\ DueOf(after, "PENDING", a) = S(p1)
      /\ S(p0) \in Nat /\ S(p1) \in Nat
  BY <1>1, DueIs DEF DueOf
<1>. HIDE DEF c0, c1, p0, p1, cr, ar, de
<1>7. S(c1) = S(c0) + S(cr)
  BY <1>2, <1>4, <1>5, FiniteHashes, SumPlus
<1>8. \A h \in TxHashes : all[h] = p1[h] + de[h] /\ all[h] = p0[h] + ar[h]
  BY <1>5
<1>. HIDE DEF all
<1>9. S(all) = S(p1) + S(de)
  BY <1>2, <1>4, <1>8, FiniteHashes, SumPlus
<1>10. S(all) = S(p0) + S(ar)
  BY <1>2, <1>4, <1>8, FiniteHashes, SumPlus
<1>. HIDE DEF S, after
<1>11. S(p1) = S(p0) + S(ar) - S(de)
  BY <1>3, <1>6, <1>9, <1>10
<1>. QED
  BY <1>3, <1>6, <1>7, <1>11 DEF after

\* What becomes due from one transaction, to all agents, is credited to some
\* agent, whatever the poll read.
LEMMA OneTransactionPaid ==
    ASSUME NEW batch, NEW at, NEW seen, Fitting(batch, seen), NEW h \in TxHashes
    PROVE  LET after == RowsAfter(batch, at, seen)
           IN  SumFunctionOnSet([a \in Agents |-> Value(after, "CONFIRMED", a, h)], Agents)
                 <= SumFunctionOnSet([a \in Agents |->
                        Value(row, "CONFIRMED", a, h) + Credit(a, batch, at, seen, h)], Agents)
<1>. DEFINE after == RowsAfter(batch, at, seen)
            new == [a \in Agents |-> Value(after, "CONFIRMED", a, h)]
            cr == [a \in Agents |-> Credit(a, batch, at, seen, h)]
            old == [a \in Agents |-> Value(row, "CONFIRMED", a, h)]
            paid == [a \in Agents |-> Value(row, "CONFIRMED", a, h) + Credit(a, batch, at, seen, h)]
<1>1. OfTheFirst(row) /\ OfTheFirst(after) /\ IsFiniteSet(Agents)
  BY AfterIsOfTheFirst, TransfersAssumption DEF Fitting
<1>2. \A a \in Agents : new[a] \in Nat /\ cr[a] \in Nat /\ old[a] \in Nat /\ paid[a] = old[a] + cr[a]
  <2>. TAKE a \in Agents
  <2>1. new[a] \in Nat /\ old[a] \in Nat
    BY <1>1, ValueIsNat
  <2>2. cr[a] \in Nat
    BY MovedSums
  <2>. QED
    BY <2>1, <2>2
<1>3. CASE seen[h] = row[h]
  <2>1. \A a \in Agents : new[a] = paid[a]
    BY <1>3, OneTransactionBooked
  <2>2. \A a \in Agents : new[a] \in Int /\ paid[a] \in Int /\ new[a] <= paid[a]
    BY <1>2, <2>1
  <2>. HIDE DEF new, paid
  <2>3. SumFunctionOnSet(new, Agents) <= SumFunctionOnSet(paid, Agents)
    BY <1>1, <2>2, SumMonotone
  <2>. QED
    BY <2>3 DEF new, paid
<1>4. CASE Confirms(h, batch, at, seen)
  <2>. DEFINE payee == Owner[Min(Handled(h, batch, seen))]
              amount == Amount[First(h)]
  <2>1. /\ row[h] # NoRow /\ payee \in Agents /\ Found(h, seen).amount = amount
        /\ after[h] = RowOf(First(h), "CONFIRMED")
    BY <1>4, OneTransaction
  <2>2. Matched(h, Transfers) # {}
    BY <1>1, <2>1 DEF OfTheFirst
  <2>3. Owner[First(h)] \in Agents /\ amount \in Nat
    BY <2>2, FirstFacts
  <2>4. \A a \in Agents : new[a] = IF a = Owner[First(h)] THEN amount ELSE 0
    <3>1. after[h].status = "CONFIRMED" /\ after[h].agent = Owner[First(h)] /\ after[h].amount = amount
      BY <2>1 DEF RowOf
    <3>. HIDE DEF after
    <3>. QED
      BY <3>1 DEF Value, after
  <2>5. \A a \in Agents : a = payee => cr[a] >= amount
    <3>. SUFFICES ASSUME NEW a \in Agents, a = payee PROVE cr[a] >= amount
      OBVIOUS
    <3>1. a = Owner[Min(Handled(h, batch, seen))] /\ h \in ConfirmedFor(a, batch, at, seen)
      BY <1>4 DEF ConfirmedFor
    <3>2. h \notin Created(a, "CONFIRMED", batch, at, seen)
      BY <1>4, OneTransaction DEF Created
    <3>3. cr[a] = 0 + amount
      BY <2>1, <3>1, <3>2 DEF Credit
    <3>. QED
      BY <2>3, <3>3
  <2>. DEFINE one == [a \in Agents |-> IF a = payee THEN amount ELSE 0]
  <2>6. \A a \in Agents : one[a] \in Int /\ paid[a] \in Int /\ one[a] <= paid[a]
    BY <1>2, <2>3, <2>5
  <2>7. \A a \in Agents : a # payee => one[a] = 0
    OBVIOUS
  <2>8. \A a \in Agents : a # Owner[First(h)] => new[a] = 0
    BY <2>4
  <2>9. one[payee] = amount /\ new[Owner[First(h)]] = amount
    BY <2>1, <2>3, <2>4
  <2>. HIDE DEF one, new, paid, payee, amount
  <2>10. SumFunctionOnSet(new, Agents) = amount
    BY <1>1, <2>3, <2>8, <2>9, SumSingle
  <2>11. SumFunctionOnSet(one, Agents) = amount
    BY <1>1, <2>1, <2>3, <2>7, <2>9, SumSingle
  <2>12. SumFunctionOnSet(one, Agents) <= SumFunctionOnSet(paid, Agents)
    BY <1>1, <2>6, SumMonotone
  <2>13. SumFunctionOnSet(new, Agents) <= SumFunctionOnSet(paid, Agents)
    BY <2>10, <2>11, <2>12
  <2>. QED
    BY <2>13 DEF new, paid
<1>5. CASE Inserts(h, batch, seen)
  <2>1. seen[h] = row[h]
    BY <1>5 DEF Inserts
  <2>. QED
    BY <1>3, <2>1
<1>6. CASE ~Inserts(h, batch, seen) /\ ~Confirms(h, batch, at, seen)
  <2>1. after[h] = row[h]
    BY <1>6, OneTransaction
  <2>2. \A a \in Agents : new[a] = old[a]
    BY <2>1 DEF Value
  <2>3. \A a \in Agents : new[a] \in Int /\ paid[a] \in Int /\ new[a] <= paid[a]
    BY <1>2, <2>2
  <2>. HIDE DEF new, paid
  <2>4. SumFunctionOnSet(new, Agents) <= SumFunctionOnSet(paid, Agents)
    BY <1>1, <2>3, SumMonotone
  <2>. QED
    BY <2>4 DEF new, paid
<1>. QED
  BY <1>4, <1>5, <1>6

\* No deposit is lost: all agents together get at least what becomes due.
LEMMA PollIsPaid ==
    ASSUME NEW batch, NEW at, NEW seen, Fitting(batch, seen)
    PROVE  LET after == RowsAfter(batch, at, seen)
           IN  SumFunctionOnSet([a \in Agents |-> DueOf(after, "CONFIRMED", a)], Agents)
                 <= SumFunctionOnSet([a \in Agents |-> DueOf(row, "CONFIRMED", a)], Agents)
                      + SumFunctionOnSet([a \in Agents |-> Deposited(a, batch, at, seen)], Agents)
<1>. DEFINE after == RowsAfter(batch, at, seen)
            new == [a \in Agents |-> [h \in TxHashes |-> Value(after, "CONFIRMED", a, h)]]
            paid == [a \in Agents |-> [h \in TxHashes |->
                        Value(row, "CONFIRMED", a, h) + Credit(a, batch, at, seen, h)]]
            newOf == [h \in TxHashes |-> SumFunctionOnSet([a \in Agents |-> new[a][h]], Agents)]
            paidOf == [h \in TxHashes |-> SumFunctionOnSet([a \in Agents |-> paid[a][h]], Agents)]
            newTo == [a \in Agents |-> SumFunctionOnSet([h \in TxHashes |-> new[a][h]], TxHashes)]
            paidTo == [a \in Agents |-> SumFunctionOnSet([h \in TxHashes |-> paid[a][h]], TxHashes)]
            due == [a \in Agents |-> DueOf(row, "CONFIRMED", a)]
            got == [a \in Agents |-> Deposited(a, batch, at, seen)]
<1>1. OfTheFirst(row) /\ OfTheFirst(after) /\ IsFiniteSet(Agents)
  BY AfterIsOfTheFirst, TransfersAssumption DEF Fitting
<1>2. \A a \in Agents, h \in TxHashes : new[a][h] \in Nat /\ paid[a][h] \in Nat
  <2>. TAKE a \in Agents, h \in TxHashes
  <2>1. Value(after, "CONFIRMED", a, h) \in Nat /\ Value(row, "CONFIRMED", a, h) \in Nat
    BY <1>1, ValueIsNat
  <2>2. Credit(a, batch, at, seen, h) \in Nat
    BY MovedSums
  <2>. QED
    BY <2>1, <2>2
<1>3. \A h \in TxHashes : newOf[h] <= paidOf[h]
  BY OneTransactionPaid
<1>4. \A a \in Agents : newTo[a] = DueOf(after, "CONFIRMED", a)
  BY DEF DueOf
<1>5. \A a \in Agents : paidTo[a] = due[a] + got[a] /\ due[a] \in Nat /\ got[a] \in Nat
  <2>. TAKE a \in Agents
  <2>. DEFINE v == [h \in TxHashes |-> Value(row, "CONFIRMED", a, h)]
              c == [h \in TxHashes |-> Credit(a, batch, at, seen, h)]
              p == [h \in TxHashes |-> paid[a][h]]
  <2>1. \A h \in TxHashes : v[h] \in Nat
    BY <1>1, ValueIsNat
  <2>2. \A h \in TxHashes : c[h] \in Nat
    BY MovedSums
  <2>3. \A h \in TxHashes : p[h] = v[h] + c[h]
    OBVIOUS
  <2>4. due[a] = SumFunctionOnSet(v, TxHashes) /\ due[a] \in Nat
    BY <1>1, DueIs DEF DueOf
  <2>5. got[a] = SumFunctionOnSet(c, TxHashes) /\ got[a] \in Nat
    BY MovedSums
  <2>6. paidTo[a] = SumFunctionOnSet(p, TxHashes)
    OBVIOUS
  <2>. HIDE DEF v, c, p, due, got, paidTo
  <2>7. SumFunctionOnSet(p, TxHashes) = SumFunctionOnSet(v, TxHashes) + SumFunctionOnSet(c, TxHashes)
    BY <2>1, <2>2, <2>3, FiniteHashes, SumPlus
  <2>. QED
    BY <2>4, <2>5, <2>6, <2>7
<1>. HIDE DEF new, paid, due, got
<1>6. \A a \in Agents, h \in TxHashes : new[a][h] \in Int /\ paid[a][h] \in Int
  BY <1>2
<1>7. \A h \in TxHashes : newOf[h] \in Int /\ paidOf[h] \in Int
  <2>. TAKE h \in TxHashes
  <2>. DEFINE n == [a \in Agents |-> new[a][h]]
              p == [a \in Agents |-> paid[a][h]]
  <2>1. \A a \in Agents : n[a] \in Int /\ p[a] \in Int
    BY <1>6
  <2>2. newOf[h] = SumFunctionOnSet(n, Agents) /\ paidOf[h] = SumFunctionOnSet(p, Agents)
    OBVIOUS
  <2>. HIDE DEF n, p, newOf, paidOf
  <2>. QED
    BY <1>1, <2>1, <2>2, SumType
<1>8. SumFunctionOnSet(newTo, Agents) = SumFunctionOnSet(newOf, TxHashes)
  BY <1>1, <1>6, FiniteHashes, SumSwap
<1>9. SumFunctionOnSet(paidTo, Agents) = SumFunctionOnSet(paidOf, TxHashes)
  BY <1>1, <1>6, FiniteHashes, SumSwap
<1>. HIDE DEF newOf, paidOf, newTo, paidTo
<1>10. SumFunctionOnSet(newOf, TxHashes) <= SumFunctionOnSet(paidOf, TxHashes)
  BY <1>3, <1>7, FiniteHashes, SumMonotone
<1>11. SumFunctionOnSet(paidTo, Agents) = SumFunctionOnSet(due, Agents) + SumFunctionOnSet(got, Agents)
  BY <1>1, <1>5, SumPlus
<1>12. newTo = [a \in Agents |-> DueOf(after, "CONFIRMED", a)]
  BY <1>4 DEF newTo
<1>13. SumFunctionOnSet(newTo, Agents) <= SumFunctionOnSet(due, Agents) + SumFunctionOnSet(got, Agents)
  BY <1>8, <1>9, <1>10, <1>11
<1>. QED
  BY <1>12, <1>13 DEF due, got

\* LedgerMatchesRows, for rows and balances of any kind
Matches(rows, have, wait, exactly) ==
    /\ exactly => \A a \in Agents : /\ have[a] = DueOf(rows, "CONFIRMED", a)
                                   /\ wait[a] = DueOf(rows, "PENDING", a)
    /\ SumFunctionOnSet([a \in Agents |-> DueOf(rows, "CONFIRMED", a)], Agents)
         <= SumFunctionOnSet(have, Agents)

\* The sums of the model are those of these proofs.
LEMMA MatchesMeans ==
    ASSUME NEW rows, NEW have, OfTheFirst(rows), have \in [Agents -> Nat]
    PROVE  LET due(a, status) ==
                   SumFunction([h \in {h \in TxHashes : rows[h].status = status /\ rows[h].agent = a}
                                    |-> rows[h].amount])
           IN  /\ \A a \in Agents : /\ due(a, "CONFIRMED") = DueOf(rows, "CONFIRMED", a)
                                   /\ due(a, "PENDING") = DueOf(rows, "PENDING", a)
               /\ SumFunction(have) >= SumFunction([a \in Agents |-> due(a, "CONFIRMED")])
                    <=> SumFunctionOnSet([a \in Agents |-> DueOf(rows, "CONFIRMED", a)], Agents)
                          <= SumFunctionOnSet(have, Agents)
<1>. DEFINE due(a, status) ==
                SumFunction([h \in {h \in TxHashes : rows[h].status = status /\ rows[h].agent = a}
                                 |-> rows[h].amount])
            D == [a \in Agents |-> due(a, "CONFIRMED")]
            E == [a \in Agents |-> DueOf(rows, "CONFIRMED", a)]
<1>1. \A a \in Agents : /\ due(a, "CONFIRMED") = DueOf(rows, "CONFIRMED", a)
                       /\ due(a, "PENDING") = DueOf(rows, "PENDING", a)
                       /\ DueOf(rows, "CONFIRMED", a) \in Nat
  BY DueIs
<1>. HIDE DEF due
<1>2. D = E /\ DOMAIN D = Agents /\ DOMAIN have = Agents
  BY <1>1
<1>3. \A a \in Agents : E[a] \in Int /\ have[a] \in Int
  BY <1>1
<1>4. SumFunctionOnSet(E, Agents) \in Int /\ SumFunctionOnSet(have, Agents) \in Int
  <2>. HIDE DEF E
  <2>. QED
    BY <1>3, SumType, TransfersAssumption
<1>5. SumFunction(have) >= SumFunction(D)
        <=> SumFunctionOnSet(E, Agents) <= SumFunctionOnSet(have, Agents)
  <2>. HIDE DEF D, E
  <2>. QED
    BY <1>2, <1>4 DEF SumFunction
<1>. QED
  BY <1>1, <1>5 DEF due

\* Due, the definition, in this state and in the next
LEMMA LedgerIs ==
    ASSUME OfTheFirst(row), available \in [Agents -> Nat]
    PROVE  LedgerMatchesRows <=> Matches(row, available, pending, ~overlapped)
<1>1. \A a \in Agents : /\ Due(a, "CONFIRMED") = DueOf(row, "CONFIRMED", a)
                       /\ Due(a, "PENDING") = DueOf(row, "PENDING", a)
  BY MatchesMeans DEF Due, RowsOf
<1>2. SumFunction(available) >= SumFunction([a \in Agents |-> Due(a, "CONFIRMED")])
        <=> SumFunctionOnSet([a \in Agents |-> DueOf(row, "CONFIRMED", a)], Agents)
              <= SumFunctionOnSet(available, Agents)
  BY MatchesMeans DEF Due, RowsOf
<1>. QED
  BY <1>1, <1>2 DEF LedgerMatchesRows, Matches

\* The same of the state after a step
LEMMA LedgerIsAfterwards ==
    ASSUME OfTheFirst(row'), available' \in [Agents -> Nat]
    PROVE  LedgerMatchesRows' <=> Matches(row', available', pending', ~overlapped')
<1>1. \A a \in Agents : /\ Due(a, "CONFIRMED")' = DueOf(row', "CONFIRMED", a)
                       /\ Due(a, "PENDING")' = DueOf(row', "PENDING", a)
  BY MatchesMeans DEF Due, RowsOf
<1>2. SumFunction(available') >= SumFunction([a \in Agents |-> Due(a, "CONFIRMED")'])
        <=> SumFunctionOnSet([a \in Agents |-> DueOf(row', "CONFIRMED", a)], Agents)
              <= SumFunctionOnSet(available', Agents)
  BY MatchesMeans DEF Due, RowsOf
<1>. QED
  BY <1>1, <1>2 DEF LedgerMatchesRows, Matches

\* A poll that commits, about the balances only
LEMMA CommitBooks ==
    ASSUME IInv, LedgerInv, NEW m \in Monitors, CommitPoll(m)
    PROVE  /\ available' \in [Agents -> Nat]
           /\ pending' \in [Agents -> Nat]
           /\ OfTheFirst(row')
           /\ Matches(row', available', pending', ~overlapped)
<1>. DEFINE p == monitor[m]
<1>1. /\ p.pc = "polling"
      /\ p.batch \in SUBSET Transfers /\ p.seen \in [TxHashes -> Row]
  BY MonitorFacts DEF CommitPoll, IInv, RowsTypeOK
<1>2. PICK seen \in Readings(p.seen) :
          /\ row' = RowsAfter(p.batch, p.at, seen)
          /\ available' = [a \in Agents |->
                 available[a] + Deposited(a, p.batch, p.at, seen)]
          /\ pending' = [a \in Agents |->
                 AtLeastZero(pending[a] + Added(a, p.batch, p.at, seen)
                                        - Cleared(a, p.batch, p.at, seen))]
  BY DEF CommitPoll
<1>3. PICK late \in SUBSET {h \in TxHashes : row[h] # p.seen[h]} :
          seen = [h \in TxHashes |-> IF h \in late THEN row[h] ELSE p.seen[h]]
  BY DEF Readings
<1>4. Fitting(p.batch, seen)
  <2>1. OfTheFirst(row) /\ OfTheFirst(p.seen)
    BY <1>1 DEF LedgerInv, RowsAreOfTheFirst
  <2>2. OfTheFirst(seen)
    BY <1>3, <2>1 DEF OfTheFirst
  <2>3. \A h \in TxHashes : seen[h] # NoRow => row[h] # NoRow
    BY <1>1, <1>3 DEF IInv, PollsAreComplete
  <2>4. \A h \in TxHashes : Matched(h, p.batch) # {} => Matched(h, p.batch) = Matched(h, Transfers)
    BY <1>1, WholeTransactions DEF IInv, LedgerInv
  <2>. QED
    BY <2>1, <2>2, <2>3, <2>4 DEF Fitting
<1>5. OfTheFirst(row) /\ Matches(row, available, pending, ~overlapped)
  BY LedgerIs DEF LedgerInv, RowsAreOfTheFirst
<1>6. \A a \in Agents : /\ Deposited(a, p.batch, p.at, seen) \in Nat
                       /\ Added(a, p.batch, p.at, seen) \in Nat
                       /\ Cleared(a, p.batch, p.at, seen) \in Nat
                       /\ DueOf(row, "PENDING", a) \in Nat
                       /\ DueOf(row', "PENDING", a) \in Nat
                       /\ available[a] \in Nat /\ pending[a] \in Nat
  <2>1. OfTheFirst(row')
    BY <1>2, <1>4, AfterIsOfTheFirst
  <2>. QED
    BY <1>4, <1>5, <2>1, MovedSums, DueIs DEF LedgerInv
<1>7. available' \in [Agents -> Nat]
  BY <1>2, <1>6
<1>8. \A a \in Agents : pending'[a] \in Nat
  <2>. TAKE a \in Agents
  <2>. DEFINE n == pending[a] + Added(a, p.batch, p.at, seen) - Cleared(a, p.batch, p.at, seen)
  <2>1. n \in Int
    BY <1>6
  <2>2. pending'[a] = AtLeastZero(n)
    BY <1>2
  <2>. HIDE DEF n
  <2>. QED
    BY <2>1, <2>2, Floor
<1>9. pending' \in [Agents -> Nat]
  BY <1>2, <1>8
<1>10. OfTheFirst(row')
  BY <1>2, <1>4, AfterIsOfTheFirst
<1>11. ASSUME ~overlapped, NEW a \in Agents
       PROVE  /\ available'[a] = DueOf(row', "CONFIRMED", a)
              /\ pending'[a] = DueOf(row', "PENDING", a)
  <2>1. p.seen = row
    BY <1>1, <1>11 DEF LedgerInv, OnePoll
  <2>2. \A h \in TxHashes : seen[h] = row[h]
    BY <1>3, <2>1
  <2>3. /\ DueOf(row', "CONFIRMED", a)
              = DueOf(row, "CONFIRMED", a) + Deposited(a, p.batch, p.at, seen)
        /\ DueOf(row', "PENDING", a)
              = DueOf(row, "PENDING", a) + Added(a, p.batch, p.at, seen) - Cleared(a, p.batch, p.at, seen)
    BY <1>2, <1>4, <2>2, PollIsBooked
  <2>4. available[a] = DueOf(row, "CONFIRMED", a) /\ pending[a] = DueOf(row, "PENDING", a)
    BY <1>5, <1>11 DEF Matches
  <2>5. available'[a] = DueOf(row', "CONFIRMED", a)
    BY <1>2, <2>3, <2>4
  <2>6. pending'[a] = DueOf(row', "PENDING", a)
    <3>. DEFINE n == pending[a] + Added(a, p.batch, p.at, seen) - Cleared(a, p.batch, p.at, seen)
    <3>1. n = DueOf(row', "PENDING", a)
      BY <2>3, <2>4
    <3>2. n \in Int /\ n >= 0
      BY <1>6, <3>1
    <3>3. pending'[a] = AtLeastZero(n)
      BY <1>2
    <3>. HIDE DEF n
    <3>. QED
      BY <3>1, <3>2, <3>3, Floor
  <2>. QED
    BY <2>5, <2>6
<1>12. SumFunctionOnSet([a \in Agents |-> DueOf(row', "CONFIRMED", a)], Agents)
         <= SumFunctionOnSet(available', Agents)
  <2>. DEFINE new == [a \in Agents |-> DueOf(row', "CONFIRMED", a)]
              due == [a \in Agents |-> DueOf(row, "CONFIRMED", a)]
              got == [a \in Agents |-> Deposited(a, p.batch, p.at, seen)]
  <2>1. SumFunctionOnSet(new, Agents) <= SumFunctionOnSet(due, Agents) + SumFunctionOnSet(got, Agents)
    BY <1>2, <1>4, PollIsPaid
  <2>2. SumFunctionOnSet(due, Agents) <= SumFunctionOnSet(available, Agents)
    BY <1>5 DEF Matches
  <2>3. \A a \in Agents : /\ available[a] \in Int /\ got[a] \in Int
                         /\ available'[a] = available[a] + got[a]
    BY <1>2, <1>6
  <2>4. \A a \in Agents : new[a] \in Int /\ due[a] \in Int
    <3>. TAKE a \in Agents
    <3>1. DueOf(row', "CONFIRMED", a) \in Nat
      BY <1>10, DueIs
    <3>2. DueOf(row, "CONFIRMED", a) \in Nat
      BY <1>5, DueIs
    <3>. QED
      BY <3>1, <3>2
  <2>. HIDE DEF new, due, got
  <2>5. SumFunctionOnSet(available', Agents)
          = SumFunctionOnSet(available, Agents) + SumFunctionOnSet(got, Agents)
    BY <2>3, SumPlus, TransfersAssumption
  <2>6. /\ SumFunctionOnSet(new, Agents) \in Int /\ SumFunctionOnSet(due, Agents) \in Int
        /\ SumFunctionOnSet(got, Agents) \in Int /\ SumFunctionOnSet(available, Agents) \in Int
    BY <2>3, <2>4, SumType, TransfersAssumption
  <2>7. SumFunctionOnSet(new, Agents) <= SumFunctionOnSet(available', Agents)
    BY <2>1, <2>2, <2>5, <2>6
  <2>. QED
    BY <2>7 DEF new
<1>. QED
  BY <1>7, <1>9, <1>10, <1>11, <1>12 DEF Matches

\* At first there is no row and every balance is empty.
LEMMA LedgerStart == Init => IInv /\ LedgerInv
<1>. SUFFICES ASSUME Init PROVE IInv /\ LedgerInv
  OBVIOUS
<1>1. IInv
  BY RowsStart
<1>2. \A h \in TxHashes : row[h] = NoRow
  BY DEF Init
<1>3. OfTheFirst(row)
  BY <1>2 DEF OfTheFirst
<1>4. \A m \in Monitors : monitor[m].pc # "polling"
  BY DEF Init, Down
<1>5. \A a \in Agents : /\ DueOf(row, "CONFIRMED", a) = 0
                       /\ DueOf(row, "PENDING", a) = 0
  <2>. SUFFICES ASSUME NEW a \in Agents, NEW s \in {"PENDING", "CONFIRMED"}
                PROVE  DueOf(row, s, a) = 0
    OBVIOUS
  <2>. DEFINE v == [h \in TxHashes |-> Value(row, s, a, h)]
  <2>1. \A h \in TxHashes : v[h] = 0
    BY <1>2 DEF Value, NoRow
  <2>. HIDE DEF v
  <2>2. SumFunctionOnSet(v, TxHashes) = 0
    BY <2>1, FiniteHashes, SumZero
  <2>. QED
    BY <2>2 DEF v, DueOf
<1>6. /\ available \in [Agents -> Nat] /\ pending \in [Agents -> Nat]
      /\ \A a \in Agents : available[a] = 0 /\ pending[a] = 0
  BY DEF Init
<1>7. Matches(row, available, pending, ~overlapped)
  <2>. DEFINE due == [a \in Agents |-> DueOf(row, "CONFIRMED", a)]
  <2>1. \A a \in Agents : due[a] = 0 /\ available[a] = 0
    BY <1>5, <1>6
  <2>. HIDE DEF due
  <2>2. SumFunctionOnSet(due, Agents) = 0 /\ SumFunctionOnSet(available, Agents) = 0
    BY <2>1, SumZero, TransfersAssumption
  <2>. QED
    BY <1>5, <1>6, <2>2 DEF Matches, due
<1>8. OneBlock
  BY DEF Init, OneBlock
<1>. QED
  BY <1>1, <1>3, <1>4, <1>6, <1>7, <1>8, LedgerIs
  DEF LedgerInv, RowsAreOfTheFirst, OnePoll, Init

\* A step that leaves the rows and the balances alone
LEMMA BooksUntouched ==
    ASSUME LedgerInv, UNCHANGED <<row, available, pending>>, overlapped' \in BOOLEAN,
           overlapped => overlapped'
    PROVE  /\ available' \in [Agents -> Nat]
           /\ pending' \in [Agents -> Nat]
           /\ OfTheFirst(row')
           /\ Matches(row', available', pending', ~overlapped')
<1>1. OfTheFirst(row) /\ Matches(row, available, pending, ~overlapped)
  BY LedgerIs DEF LedgerInv, RowsAreOfTheFirst
<1>. QED
  BY <1>1 DEF LedgerInv, Matches

\* A step that keeps the books and what LedgerInv says of the polls
LEMMA Booked ==
    ASSUME /\ available' \in [Agents -> Nat]
           /\ pending' \in [Agents -> Nat]
           /\ OfTheFirst(row')
           /\ Matches(row', available', pending', ~overlapped'),
           lock' \in Monitors \cup {Free}, overlapped' \in BOOLEAN, OneBlock', OnePoll',
           \A m \in Monitors : monitor'[m].pc = "polling" => OfTheFirst(monitor'[m].seen)
    PROVE  LedgerInv'
  BY LedgerIsAfterwards DEF LedgerInv, RowsAreOfTheFirst

\* A block that is mined changes no row and no balance.
LEMMA LedgerMine ==
    ASSUME IInv, LedgerInv, NEW hashes \in SUBSET TxHashes, Mine(hashes)
    PROVE  LedgerInv'
<1>1. UNCHANGED <<row, available, pending, lock, monitor, overlapped>>
  BY DEF Mine, ledger
<1>2. /\ available' \in [Agents -> Nat] /\ pending' \in [Agents -> Nat]
      /\ OfTheFirst(row') /\ Matches(row', available', pending', ~overlapped')
  BY <1>1, BooksUntouched DEF LedgerInv
<1>3. OneBlock'
  <2>. SUFFICES ASSUME NEW t \in Transfers, NEW u \in Transfers, TxHash[t] = TxHash[u]
                PROVE  height'[t] = height'[u]
    BY DEF OneBlock
  <2>1. height[t] = height[u]
    BY DEF LedgerInv, OneBlock
  <2>. QED
    BY <2>1 DEF Mine
<1>4. OnePoll'
  BY <1>1 DEF LedgerInv, OnePoll
<1>. QED
  BY <1>1, <1>2, <1>3, <1>4, Booked DEF LedgerInv, RowsAreOfTheFirst

\* A step of one monitor that leaves the books alone, and after which it does
\* not poll
LEMMA LedgerOther ==
    ASSUME IInv, LedgerInv, NEW m \in Monitors,
           UNCHANGED <<height, row, available, pending, overlapped>>,
           monitor' \in [Monitors -> MonitorState],
           \A n \in Monitors \ {m} : monitor'[n] = monitor[n],
           monitor'[m].pc # "polling",
           lock' = lock \/ (lock = m /\ lock' = Free)
    PROVE  LedgerInv'
<1>1. /\ available' \in [Agents -> Nat] /\ pending' \in [Agents -> Nat]
      /\ OfTheFirst(row') /\ Matches(row', available', pending', ~overlapped')
  BY BooksUntouched DEF LedgerInv
<1>2. OneBlock'
  BY DEF LedgerInv, OneBlock
<1>3. \A n \in Monitors : monitor'[n].pc = "polling" => n # m /\ monitor'[n] = monitor[n]
  OBVIOUS
<1>4. OnePoll'
  BY <1>3 DEF LedgerInv, OnePoll
<1>5. lock' \in Monitors \cup {Free} /\ overlapped' \in BOOLEAN
  BY DEF LedgerInv
<1>6. \A n \in Monitors : monitor'[n].pc = "polling" => OfTheFirst(monitor'[n].seen)
  BY <1>3 DEF LedgerInv, RowsAreOfTheFirst
<1>. QED
  BY <1>1, <1>2, <1>4, <1>5, <1>6, Booked

\* The lock's time to live runs out: polls may overlap from now on.
LEMMA LedgerExpires ==
    ASSUME IInv, LedgerInv, LockExpires
    PROVE  LedgerInv'
<1>1. UNCHANGED <<height, row, available, pending, monitor>> /\ lock' = Free
  BY DEF LockExpires, ledger
<1>2. overlapped' \in BOOLEAN /\ (overlapped => overlapped')
  BY DEF LockExpires, LedgerInv
<1>3. /\ available' \in [Agents -> Nat] /\ pending' \in [Agents -> Nat]
      /\ OfTheFirst(row') /\ Matches(row', available', pending', ~overlapped')
  BY <1>1, <1>2, BooksUntouched
<1>4. OneBlock'
  BY <1>1 DEF LedgerInv, OneBlock
<1>5. OnePoll'
  <2>. SUFFICES ASSUME ~overlapped', NEW m \in Monitors, monitor[m].pc = "polling"
                PROVE  FALSE
    BY <1>1 DEF OnePoll
  <2>1. ~overlapped /\ monitor[lock].pc # "polling"
    BY DEF LockExpires
  <2>. QED
    BY <2>1 DEF LedgerInv, OnePoll
<1>. QED
  BY <1>1, <1>2, <1>3, <1>4, <1>5, Booked DEF LedgerInv, RowsAreOfTheFirst

\* A poll that begins holds the lock and has read the rows as they are.
LEMMA LedgerBegins ==
    ASSUME IInv, LedgerInv, NEW m \in Monitors, BeginPoll(m)
    PROVE  LedgerInv'
<1>1. UNCHANGED <<height, row, available, pending, overlapped>> /\ lock = Free /\ lock' = m
  BY DEF BeginPoll, ledger
<1>2. /\ monitor'[m].seen = row
      /\ \A n \in Monitors \ {m} : monitor'[n] = monitor[n]
  BY DEF BeginPoll, Polling, IInv, RowsTypeOK
<1>3. /\ available' \in [Agents -> Nat] /\ pending' \in [Agents -> Nat]
      /\ OfTheFirst(row') /\ Matches(row', available', pending', ~overlapped')
  BY <1>1, BooksUntouched DEF LedgerInv
<1>4. OneBlock'
  BY <1>1 DEF LedgerInv, OneBlock
<1>5. OnePoll'
  <2>. SUFFICES ASSUME ~overlapped, NEW n \in Monitors, monitor'[n].pc = "polling"
                PROVE  lock' = n /\ monitor'[n].seen = row'
    BY <1>1 DEF OnePoll
  <2>1. n = m
    <3>. SUFFICES ASSUME n # m PROVE FALSE
      OBVIOUS
    <3>1. monitor[n].pc = "polling"
      BY <1>2
    <3>2. lock = n
      BY <3>1 DEF LedgerInv, OnePoll
    <3>. QED
      BY <1>1, <3>2, TransfersAssumption
  <2>. QED
    BY <1>1, <1>2, <2>1
<1>6. lock' \in Monitors \cup {Free} /\ overlapped' \in BOOLEAN
  BY <1>1 DEF LedgerInv
<1>7. \A n \in Monitors : monitor'[n].pc = "polling" => OfTheFirst(monitor'[n].seen)
  BY <1>2 DEF LedgerInv, RowsAreOfTheFirst
<1>. QED
  BY <1>3, <1>4, <1>5, <1>6, <1>7, Booked

\* A poll commits its rows and what they move.
LEMMA LedgerCommits ==
    ASSUME IInv, LedgerInv, NEW m \in Monitors, CommitPoll(m)
    PROVE  LedgerInv'
<1>1. UNCHANGED <<height, overlapped>> /\ lock' = Unlocked(m)
  BY DEF CommitPoll
<1>2. monitor[m].pc = "polling"
  BY DEF CommitPoll
<1>3. PICK reached : monitor' = [monitor EXCEPT ![m] = Waiting(reached)]
  BY DEF CommitPoll
<1>4. monitor'[m].pc # "polling" /\ \A n \in Monitors \ {m} : monitor'[n] = monitor[n]
  BY <1>3 DEF Waiting, IInv, RowsTypeOK
<1>5. \A n \in Monitors : monitor'[n].pc = "polling" => n # m /\ monitor'[n] = monitor[n]
  BY <1>4
<1>6. /\ available' \in [Agents -> Nat] /\ pending' \in [Agents -> Nat]
      /\ OfTheFirst(row') /\ Matches(row', available', pending', ~overlapped')
  BY <1>1, CommitBooks
<1>7. OneBlock'
  BY <1>1 DEF LedgerInv, OneBlock
<1>8. OnePoll'
  <2>. SUFFICES ASSUME ~overlapped, NEW n \in Monitors, monitor'[n].pc = "polling"
                PROVE  FALSE
    BY <1>1 DEF OnePoll
  <2>1. n # m /\ monitor[n].pc = "polling"
    BY <1>5
  <2>. QED
    BY <1>2, <2>1 DEF LedgerInv, OnePoll
<1>9. lock' \in Monitors \cup {Free} /\ overlapped' \in BOOLEAN
  BY <1>1 DEF LedgerInv, Unlocked
<1>10. \A n \in Monitors : monitor'[n].pc = "polling" => OfTheFirst(monitor'[n].seen)
  BY <1>5 DEF LedgerInv, RowsAreOfTheFirst
<1>. QED
  BY <1>6, <1>7, <1>8, <1>9, <1>10, Booked

\* Every step keeps the invariant of the ledger.
LEMMA LedgerStep == IInv /\ LedgerInv /\ [Next]_vars => LedgerInv'
<1>. SUFFICES ASSUME IInv, LedgerInv, [Next]_vars PROVE LedgerInv'
  OBVIOUS
<1>0. monitor' \in [Monitors -> MonitorState]
  BY RowsStep DEF IInv, RowsTypeOK
<1>00. /\ monitor \in [Monitors -> MonitorState]
       /\ \A c : Waiting(c).pc = "waiting"
       /\ Down.pc = "down"
  BY DEF IInv, RowsTypeOK, Waiting, Down
<1>1. CASE \E hashes \in SUBSET TxHashes : Mine(hashes)
  BY <1>1, LedgerMine
<1>2. CASE LockExpires
  BY <1>2, LedgerExpires
<1>3. ASSUME NEW m \in Monitors, Start(m)
      PROVE  LedgerInv'
  <2>1. /\ UNCHANGED <<height, row, available, pending, overlapped, lock>>
        /\ monitor'[m].pc = "waiting"
        /\ \A n \in Monitors \ {m} : monitor'[n] = monitor[n]
    BY <1>00, <1>3 DEF Start, ledger
  <2>. QED
    BY <1>0, <2>1, LedgerOther
<1>4. CASE \E m \in Monitors : BeginPoll(m)
  BY <1>4, LedgerBegins
<1>5. CASE \E m \in Monitors : CommitPoll(m)
  BY <1>5, LedgerCommits
<1>6. ASSUME NEW m \in Monitors, PollFails(m)
      PROVE  LedgerInv'
  <2>1. /\ UNCHANGED <<height, row, available, pending, overlapped>>
        /\ monitor'[m].pc = "waiting"
        /\ \A n \in Monitors \ {m} : monitor'[n] = monitor[n]
        /\ lock' = lock \/ (lock = m /\ lock' = Free)
    BY <1>00, <1>6 DEF PollFails, AfterFailure, Unlocked, ledger
  <2>. QED
    BY <1>0, <2>1, LedgerOther
<1>7. ASSUME NEW m \in Monitors, Crash(m)
      PROVE  LedgerInv'
  <2>1. /\ UNCHANGED <<height, row, available, pending, overlapped, lock>>
        /\ monitor'[m].pc = "down"
        /\ \A n \in Monitors \ {m} : monitor'[n] = monitor[n]
    BY <1>00, <1>7 DEF Crash, ledger
  <2>. QED
    BY <1>0, <2>1, LedgerOther
<1>8. CASE UNCHANGED vars
  <2>1. UNCHANGED <<height, row, available, pending, monitor, lock, overlapped>>
    BY <1>8 DEF vars
  <2>2. /\ available' \in [Agents -> Nat] /\ pending' \in [Agents -> Nat]
        /\ OfTheFirst(row') /\ Matches(row', available', pending', ~overlapped')
    BY <2>1, BooksUntouched DEF LedgerInv
  <2>. QED
    BY <2>1, <2>2, Booked DEF LedgerInv, RowsAreOfTheFirst, OneBlock, OnePoll
<1>. QED
  BY <1>1, <1>2, <1>3, <1>4, <1>5, <1>6, <1>7, <1>8 DEF Next

\* So it always holds.
LEMMA LedgerHolds == Spec => [](IInv /\ LedgerInv)
  BY LedgerStart, LedgerStep, RowsStep, PTL DEF Spec

\* Rows, cursors, polls and balances keep their types: no balance is negative.
THEOREM TypeCorrect == Spec => []TypeOK
<1>1. IInv /\ LedgerInv => TypeOK
  BY DEF IInv, LedgerInv, RowsTypeOK, TypeOK
<1>. QED
  BY <1>1, LedgerHolds, PTL

\* While no poll outlives its lock, what agents have available and pending is
\* what the rows of their transactions say; and never is less credited in all
\* than what was confirmed.
THEOREM LedgerSafe == Spec => []LedgerMatchesRows
<1>1. LedgerInv => LedgerMatchesRows
  BY DEF LedgerInv
<1>. QED
  BY <1>1, LedgerHolds, PTL

\* The first transfer of a transaction below a cursor has a row of its own, with its agent
\* and amount: whatever polls fail, crash or overlap, no row is another output's.
THEOREM FirstTransfersSafe == Spec => []FirstTransfersAreRecorded
<1>1. ASSUME IInv, LedgerInv, NEW t \in Transfers, IsFirst(t), row[TxHash[t]] # NoRow
      PROVE  Recorded(t)
  <2>1. TxHash[t] \in TxHashes /\ t = First(TxHash[t])
    BY <1>1 DEF TxHashes, IsFirst
  <2>2. \E s \in {"PENDING", "CONFIRMED"} : row[TxHash[t]] = RowOf(t, s)
    BY <1>1, <2>1 DEF LedgerInv, RowsAreOfTheFirst, OfTheFirst
  <2>. QED
    BY <2>2 DEF Recorded
<1>2. IInv /\ LedgerInv => FirstTransfersAreRecorded
  BY <1>1 DEF IInv, PassedHaveRows, HasRows, FirstTransfersAreRecorded, CursorPassed, IsFirst
<1>. QED
  BY <1>2, LedgerHolds, PTL
=============================================================================
