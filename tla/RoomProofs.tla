----------------------------- MODULE RoomProofs -----------------------------
(***************************************************************************)
(* Theorems about Room, for every number of seats, connections and         *)
(* retries: the watchdog is armed, nobody is served on a socket that is    *)
(* gone or burned without a warning, and the recorded results fit.         *)
(***************************************************************************)
EXTENDS Room, AceRulesProofs

-----------------------------------------------------------------------------
(* The game.                                                                *)

(* The turn is a seat's in the game while the game goes on and nobody's     *)
(* otherwise, no seat runs out of cards twice, and a game that is over has  *)
(* the loser its lists name, or none.                                       *)
GameOK ==
  /\ phase \in {"playing", "result", "gameOver"}
  /\ finished \in Seq(Seats) /\ NoRepeats(finished)
  /\ removed \subseteq Seats
  /\ loser \in Seats \cup {NoSeat}
  /\ IF phase = "playing" THEN turn \in Active ELSE turn = NoSeat
  /\ phase = "gameOver" =>
       loser \in {NoSeat, TerminalLoser(finished, removed)}

(* Nobody finishes twice, so there are at most N finishers.                 *)
LEMMA FinishersFit ==
  ASSUME NEW fin \in Seq(Seats), NoRepeats(fin)
  PROVE  Len(fin) \in Nat /\ Len(fin) <= N
<1>1. /\ Len(fin) \in Nat /\ DOMAIN fin = 1 .. Len(fin)
      /\ fin \in [1 .. Len(fin) -> Seats]
  BY LenProperties
<1>2. fin \in Injection(1 .. Len(fin), Seats)
  BY <1>1 DEF NoRepeats, IsInjective, Injection
<1>3. IsFiniteSet(Seats) /\ Cardinality(Seats) = N
  BY SeatsAssumption, FS_Interval DEF Seats
<1>4. Cardinality(1 .. Len(fin)) = Len(fin)
  BY <1>1, FS_Interval
<1> QED
  BY <1>1, <1>2, <1>3, <1>4, FS_Injection

LEMMA SettleTyped ==
  ASSUME NEW fin \in Seq(Seats), NoRepeats(fin), NEW rem, rem \subseteq Seats,
         removed' = rem, Settle(fin, rem)
  PROVE  GameOK'
<1>1. finished' \in Seq(Seats) /\ NoRepeats(finished')
  BY RemoveIntRemoves DEF Settle
<1>2. loser' \in Seats \cup {NoSeat}
  BY LoserIsSeat DEF Settle
<1> QED
  BY <1>1, <1>2 DEF Settle, GameOK

LEMMA MoveKeepsGame ==
  ASSUME GameOK, NEW s \in Seats, Move(s)
  PROVE  GameOK'
<1>1. /\ phase = "playing" /\ turn = s /\ s \in Active /\ removed' = removed
      /\ finished \in Seq(Seats) /\ NoRepeats(finished)
      /\ s \notin Range(finished)
  BY DEF Move, GameOK, Active, ActiveSeats
<1>2. PICK fin \in {finished, Append(finished, s)} :
        \/ /\ turn' \in ActiveSeats(fin, removed) \ {s}
           /\ finished' = fin
           /\ UNCHANGED <<phase, loser>>
        \/ Settle(fin, removed)
  BY DEF Move
<1>3. fin \in Seq(Seats) /\ NoRepeats(fin)
  <2>1. /\ Append(finished, s) \in Seq(Seats)
        /\ NoRepeats(Append(finished, s))
    BY <1>1, AppendKeepsDistinct
  <2> QED
    BY <1>1, <2>1
<1>4. CASE /\ turn' \in ActiveSeats(fin, removed) \ {s}
           /\ finished' = fin
           /\ UNCHANGED <<phase, loser>>
  BY <1>1, <1>3, <1>4 DEF GameOK, Active
<1>5. CASE Settle(fin, removed)
  BY <1>1, <1>3, <1>5, SettleTyped DEF GameOK
<1> QED
  BY <1>2, <1>4, <1>5

LEMMA LeaveKeepsGame ==
  ASSUME GameOK, NEW s \in Seats, Leave(s)
  PROVE  GameOK'
<1>1. /\ s \in Seats \ removed /\ removed' = removed \cup {s}
      /\ removed' \subseteq Seats
      /\ finished \in Seq(Seats) /\ NoRepeats(finished)
  BY DEF Leave, GameOK
<1>2. CASE /\ phase = "playing"
           /\ IF turn = s THEN turn' \in Active \ {s} ELSE turn' = turn
           /\ UNCHANGED <<phase, finished, loser>>
  <2>1. Active' = Active \ {s}
    BY <1>1, <1>2 DEF Active, ActiveSeats
  <2> QED
    BY <1>1, <1>2, <2>1 DEF GameOK
<1>3. CASE Settle(finished, removed')
  BY <1>1, <1>3, SettleTyped
<1>4. CASE /\ phase' = "gameOver" /\ turn' = NoSeat /\ loser' = NoSeat
           /\ UNCHANGED finished
  BY <1>1, <1>4 DEF GameOK
<1>5. CASE phase = "result" /\ UNCHANGED <<phase, turn, finished, loser>>
  BY <1>1, <1>5 DEF GameOK
<1> QED
  BY <1>2, <1>3, <1>4, <1>5 DEF Leave

LEMMA RoundKeepsGame ==
  ASSUME GameOK, NextRound
  PROVE  GameOK'
<1>1. phase = "result" /\ UNCHANGED <<finished, removed>>
  BY DEF NextRound
<1>2. CASE /\ phase' = "gameOver" /\ UNCHANGED turn
           /\ loser' = TerminalLoser(finished, removed)
  BY <1>1, <1>2, LoserIsSeat DEF GameOK
<1>3. CASE phase' = "playing" /\ turn' \in Active /\ UNCHANGED loser
  BY <1>1, <1>3 DEF GameOK, Active
<1> QED
  BY <1>2, <1>3 DEF NextRound

LEMMA IdleKeepsGame ==
  ASSUME GameOK, UNCHANGED gameVars
  PROVE  GameOK'
BY DEF GameOK, gameVars, Active

-----------------------------------------------------------------------------
(* The watchdog and the results.                                            *)

(* In play no more clicks are spent than there are, and none before the     *)
(* prompt.                                                                  *)
ClicksOK ==
  ~done /\ phase = "playing" =>
    /\ retriesUsed <= MaxRetries
    /\ ~prompting => retriesUsed = 0

RecordOK ==
  done => record = [s \in Seats |->
                      [won |-> ~IsLoss(s, removed, loser),
                       placement |-> Placement(s, finished)]]

RecordType == [Seats -> [won : BOOLEAN, placement : 0 .. N]]

TimersOK ==
  /\ timers \subseteq Timer
  /\ prompting \in BOOLEAN /\ done \in BOOLEAN
  /\ retriesUsed \in 0 .. MaxRetries + 1
  /\ record \in RecordType
  /\ WatchdogArmed /\ ClicksOK /\ RecordOK

Ticking(ts) == {t \in ts : t.live /\ t.kind # "resolve"}

LEMMA BumpedTimers ==
  ASSUME NEW ts, ts \subseteq Timer
  PROVE  Bump(ts) \subseteq Timer /\ Ticking(Bump(ts)) = {}
<1>1. \A t \in ts : t.kind # "resolve" =>
        /\ [t EXCEPT !.live = FALSE] \in Timer
        /\ [t EXCEPT !.live = FALSE].live = FALSE
  BY DEF Timer
<1>2. Bump(ts) \subseteq Timer
  BY <1>1 DEF Bump
<1>3. \A t \in Bump(ts) : ~t.live \/ t.kind = "resolve"
  BY <1>1 DEF Bump
<1> QED
  BY <1>2, <1>3 DEF Ticking

LEMMA PauseOverTimers ==
  ASSUME NEW ts, ts \subseteq Timer
  PROVE  PauseOver(ts) \subseteq Timer
<1>1. \A t \in ts : [t EXCEPT !.live = FALSE] \in Timer
  BY DEF Timer
<1> QED
  BY <1>1 DEF PauseOver

LEMMA NewTimers ==
  /\ Idle \in Timer /\ Idle.live /\ Idle.kind = "idle"
  /\ Grace \in Timer /\ Grace.live /\ Grace.kind = "grace"
  /\ \A out : out \subseteq Seats =>
       Resolve(out) \in Timer /\ Resolve(out).kind = "resolve"
<1>1. \A out : out \subseteq Seats => Cardinality(out) \in 0 .. N
  BY SeatsAreFinite, SeatsAssumption
<1>2. Idle \in Timer /\ Grace \in Timer
  BY DEF Idle, Grace, Timer
<1>3. /\ Idle.live /\ Idle.kind = "idle" /\ Grace.live /\ Grace.kind = "grace"
  BY DEF Idle, Grace
<1> QED
  BY <1>1, <1>2, <1>3 DEF Resolve, Timer

LEMMA RecordTyped ==
  ASSUME NEW out, NEW last, NEW fin \in Seq(Seats), NoRepeats(fin)
  PROVE  [s \in Seats |-> [won |-> ~IsLoss(s, out, last),
                           placement |-> Placement(s, fin)]] \in RecordType
<1>1. ASSUME NEW s \in Seats
      PROVE  Placement(s, fin) \in 0 .. N
  <2>1. Len(fin) \in Nat /\ Len(fin) <= N
    BY FinishersFit
  <2>2. s \in Range(fin) => IndexOf(fin, s) \in 1 .. Len(fin)
    BY RemoveIntRemoves
  <2> QED
    BY <2>1, <2>2, SeatsAssumption DEF Placement
<1> QED
  BY <1>1 DEF RecordType, IsLoss

(* Whatever the engine has done, the handlers that go on with Continue      *)
(* leave the watchdog armed and no prompt showing.                          *)
LEMMA Continued ==
  ASSUME TimersOK, GameOK', ~done, NEW ts, ts \subseteq Timer,
         NEW used \in 0 .. MaxRetries + 1, Continue(ts, used)
  PROVE  TimersOK' /\ ~prompting'
<1>1. CASE phase' = "playing" /\ ArmTurn(ts) /\ UNCHANGED <<record, done>>
  <2>1. /\ timers' = Bump(ts) \cup {Idle} /\ retriesUsed' = 0
        /\ prompting' = FALSE /\ done' = FALSE /\ record' = record
    BY <1>1 DEF ArmTurn, TimersOK
  <2>2. Ticking(timers') = {Idle} /\ timers' \subseteq Timer
    BY <2>1, BumpedTimers, NewTimers DEF Ticking
  <2>3. WatchdogArmed'
    BY <1>1, <2>1, <2>2, RoomAssumption DEF WatchdogArmed, Ticking
  <2>4. ClicksOK' /\ retriesUsed' \in 0 .. MaxRetries + 1
    BY <2>1, RoomAssumption DEF ClicksOK
  <2>5. RecordOK' /\ record' \in RecordType
    BY <2>1 DEF RecordOK, TimersOK
  <2> QED
    BY <2>1, <2>2, <2>3, <2>4, <2>5 DEF TimersOK
<1>2. CASE /\ phase' = "result" /\ timers' = Bump(ts) \cup {Resolve(removed')}
           /\ prompting' = FALSE /\ retriesUsed' = used
           /\ UNCHANGED <<record, done>>
  <2>1. /\ timers' \subseteq Timer
        /\ \E t \in timers' : t.kind = "resolve"
    BY <1>2, BumpedTimers, NewTimers DEF GameOK
  <2>2. done' = FALSE
    BY <1>2 DEF TimersOK
  <2>3. WatchdogArmed'
    BY <1>2, <2>1, <2>2 DEF WatchdogArmed
  <2> QED
    BY <1>2, <2>1, <2>2, <2>3 DEF TimersOK, ClicksOK, RecordOK
<1>3. CASE phase' = "gameOver" /\ FinishGame(used)
  <2>1. /\ done' = TRUE /\ retriesUsed' = used /\ timers' = {}
        /\ prompting' = FALSE
        /\ record' = [s \in Seats |->
                        [won |-> ~IsLoss(s, removed', loser'),
                         placement |-> Placement(s, finished')]]
    BY <1>3 DEF FinishGame
  <2>2. record' \in RecordType
    BY <2>1, RecordTyped DEF GameOK
  <2>3. WatchdogArmed' /\ ClicksOK'
    BY <1>3, <2>1 DEF WatchdogArmed, ClicksOK
  <2>4. RecordOK'
    BY <2>1 DEF RecordOK, IsLoss, Placement
  <2> QED
    BY <2>1, <2>2, <2>3, <2>4 DEF TimersOK
<1> QED
  BY <1>1, <1>2, <1>3 DEF Continue

LEMMA OnPlayKeepsWatch ==
  ASSUME GameOK, TimersOK, NEW c \in Sockets, OnPlay(c)
  PROVE  GameOK' /\ TimersOK' /\ ~prompting'
<1>1. PICK s \in Seats : Move(s)
  BY DEF OnPlay
<1>2. GameOK'
  BY <1>1, MoveKeepsGame
<1>3. timers \subseteq Timer /\ retriesUsed \in 0 .. MaxRetries + 1
  BY DEF TimersOK
<1>4. ~done /\ Continue(timers, retriesUsed)
  BY DEF OnPlay
<1> QED
  BY <1>2, <1>3, <1>4, Continued

LEMMA ForfeitKeepsWatch ==
  ASSUME GameOK, TimersOK, ~done, NEW s \in Seats, NEW why,
         NEW ts, ts \subseteq Timer, NEW used \in 0 .. MaxRetries + 1,
         Forfeit(s, why, ts, used)
  PROVE  GameOK' /\ TimersOK' /\ ~prompting'
<1>1. Leave(s) /\ Continue(ts, used)
  BY DEF Forfeit
<1>2. GameOK'
  BY <1>1, LeaveKeepsGame
<1> QED
  BY <1>1, <1>2, Continued

LEMMA OnLeaveKeepsWatch ==
  ASSUME GameOK, TimersOK, NEW c \in Sockets, OnLeave(c)
  PROVE  GameOK' /\ TimersOK' /\ ~prompting'
<1>1. ~done /\ \E s \in Seats : Forfeit(s, "left", timers, retriesUsed)
  BY DEF OnLeave
<1>2. timers \subseteq Timer /\ retriesUsed \in 0 .. MaxRetries + 1
  BY DEF TimersOK
<1> QED
  BY <1>1, <1>2, ForfeitKeepsWatch

(* What the watchdog and the results say depends on these variables alone.  *)
LEMMA UntouchedWatch ==
  ASSUME TimersOK,
         UNCHANGED <<gameVars, timers, prompting, retriesUsed, record, done>>
  PROVE  TimersOK'
BY DEF TimersOK, gameVars, WatchdogArmed, ClicksOK, RecordOK, IsLoss, Placement

(* A prompt shows in play only, while its seat has a click left or the last *)
(* grace period.                                                            *)
LEMMA PromptInPlay ==
  ASSUME GameOK, TimersOK, ~done, prompting
  PROVE  /\ phase = "playing" /\ turn \in Seats
         /\ retriesUsed \in 0 .. MaxRetries
<1>1. phase = "playing"
  BY DEF GameOK, TimersOK, WatchdogArmed
<1>2. turn \in Seats
  BY <1>1 DEF GameOK, Active, ActiveSeats
<1>3. retriesUsed <= MaxRetries /\ retriesUsed \in 0 .. MaxRetries + 1
  BY DEF TimersOK, WatchdogArmed
<1> QED
  BY <1>1, <1>2, <1>3, RoomAssumption

LEMMA OnImHereKeepsWatch ==
  ASSUME GameOK, TimersOK, NEW c \in Sockets, OnImHere(c)
  PROVE  GameOK' /\ TimersOK'
<1>1. ~done /\ prompting /\ turn \in Seats
  BY DEF OnImHere
<1>2. phase = "playing" /\ retriesUsed \in 0 .. MaxRetries
  BY <1>1, PromptInPlay
<1>3. retriesUsed + 1 \in 0 .. MaxRetries + 1 /\ timers \subseteq Timer
  BY <1>2, RoomAssumption DEF TimersOK
<1>4. CASE Forfeit(turn, "timeout", timers, retriesUsed + 1)
  BY <1>1, <1>3, <1>4, ForfeitKeepsWatch
<1>5. CASE /\ retriesUsed + 1 <= MaxRetries
           /\ retriesUsed' = retriesUsed + 1
           /\ timers' = Bump(timers) \cup {Grace}
           /\ UNCHANGED <<gameVars, prompting, reason, record, done>>
  <2>1. /\ phase' = "playing" /\ prompting' /\ ~done' /\ record' = record
        /\ prompting' = prompting /\ done' = done
    BY <1>1, <1>2, <1>5 DEF gameVars
  <2>2. Ticking(timers') = {Grace} /\ timers' \subseteq Timer
    BY <1>3, <1>5, BumpedTimers, NewTimers DEF Ticking
  <2>3. WatchdogArmed'
    BY <1>5, <2>1, <2>2 DEF WatchdogArmed, Ticking
  <2>4. ClicksOK' /\ RecordOK'
    BY <1>5, <2>1 DEF ClicksOK, RecordOK
  <2>5. retriesUsed' \in 0 .. MaxRetries + 1 /\ record' \in RecordType
    BY <1>3, <1>5, <2>1 DEF TimersOK
  <2>6. TimersOK'
    BY <2>1, <2>2, <2>3, <2>4, <2>5 DEF TimersOK
  <2> QED
    BY <1>5, <2>6, IdleKeepsGame
<1> QED
  BY <1>4, <1>5 DEF OnImHere

(* Dropping a timer that does not count leaves the watchdog armed.          *)
LEMMA IgnoredKeepsWatch ==
  ASSUME GameOK, TimersOK, ~done, NEW t \in timers, Ignored(t),
         phase = "playing" => t \notin Ticking(timers),
         t.kind = "resolve" => phase # "result"
  PROVE  GameOK' /\ TimersOK'
<1>1. /\ timers' = timers \ {t}
      /\ UNCHANGED <<gameVars, prompting, retriesUsed, record, done>>
  BY DEF Ignored
<1>2. UNCHANGED <<phase, turn, finished, removed, loser>>
  BY <1>1 DEF gameVars
<1>3. timers' \subseteq Timer
  BY <1>1 DEF TimersOK
<1>4. phase = "playing" => Ticking(timers') = Ticking(timers)
  BY <1>1 DEF Ticking
<1>5. phase = "result" =>
        ((\E u \in timers : u.kind = "resolve")
           => \E u \in timers' : u.kind = "resolve")
  BY <1>1
<1>6. WatchdogArmed'
  BY <1>1, <1>2, <1>4, <1>5 DEF TimersOK, WatchdogArmed, Ticking
<1>7. ClicksOK' /\ RecordOK'
  BY <1>1, <1>2 DEF TimersOK, ClicksOK, RecordOK, IsLoss, Placement
<1>8. TimersOK'
  BY <1>1, <1>3, <1>6, <1>7 DEF TimersOK
<1> QED
  BY <1>1, <1>8, IdleKeepsGame

(* The idle timer that still matters finds no prompt and no click spent.    *)
LEMMA IdleIsFirst ==
  ASSUME GameOK, TimersOK, ~done, NEW t \in timers,
         t.kind = "idle", IsCurrent(t)
  PROVE  Ticking(timers) = {t} /\ ~prompting /\ retriesUsed = 0
<1>1. phase = "playing" /\ t \in Ticking(timers)
  BY DEF IsCurrent, Ticking
<1>2. Ticking(timers) = {IF prompting THEN Grace ELSE Idle}
  BY <1>1 DEF TimersOK, WatchdogArmed, Ticking
<1>3. ~prompting
  BY <1>1, <1>2, NewTimers
<1> QED
  BY <1>1, <1>2, <1>3 DEF TimersOK, ClicksOK

LEMMA OnIdleKeepsWatch ==
  ASSUME GameOK, TimersOK, NEW t \in timers, OnIdle(t)
  PROVE  GameOK' /\ TimersOK'
<1>1. ~done /\ t.kind = "idle"
  BY DEF OnIdle
<1>2. CASE /\ IsCurrent(t)
           /\ prompting' = TRUE
           /\ timers' = (timers \ {t}) \cup {Grace}
           /\ UNCHANGED <<gameVars, retriesUsed, record, done>>
  <2>1. Ticking(timers) = {t} /\ retriesUsed = 0
    BY <1>1, <1>2, IdleIsFirst
  <2>2. Ticking(timers') = {Grace} /\ timers' \subseteq Timer
    BY <1>2, <2>1, NewTimers DEF Ticking, TimersOK
  <2>3. /\ phase' = "playing" /\ ~done' /\ record' = record
        /\ retriesUsed' = retriesUsed /\ done' = done
    BY <1>1, <1>2 DEF gameVars, IsCurrent
  <2>4. WatchdogArmed' /\ ClicksOK' /\ RecordOK'
    BY <1>2, <2>1, <2>2, <2>3, RoomAssumption
       DEF WatchdogArmed, ClicksOK, RecordOK, Ticking
  <2>5. TimersOK'
    BY <1>2, <2>2, <2>3, <2>4 DEF TimersOK
  <2> QED
    BY <1>2, <2>5, IdleKeepsGame
<1>3. CASE ~IsCurrent(t) /\ Ignored(t)
  <2>1. phase = "playing" => t \notin Ticking(timers)
    BY <1>3 DEF IsCurrent, Ticking
  <2> QED
    BY <1>1, <1>3, <2>1, IgnoredKeepsWatch
<1> QED
  BY <1>2, <1>3 DEF OnIdle

LEMMA OnGraceKeepsWatch ==
  ASSUME GameOK, TimersOK, NEW t \in timers, OnGrace(t)
  PROVE  GameOK' /\ TimersOK'
<1>1. ~done /\ t.kind = "grace"
  BY DEF OnGrace
<1>2. CASE /\ IsCurrent(t) /\ prompting
           /\ Forfeit(turn, "timeout", timers \ {t}, retriesUsed)
  <2>1. /\ timers \ {t} \subseteq Timer
        /\ retriesUsed \in 0 .. MaxRetries + 1
    BY DEF TimersOK
  <2>2. turn \in Seats
    BY <1>1, <1>2, PromptInPlay
  <2> QED
    BY <1>1, <1>2, <2>1, <2>2, ForfeitKeepsWatch
<1>3. CASE ~(IsCurrent(t) /\ prompting) /\ Ignored(t)
  <2>1. phase = "playing" => t \notin Ticking(timers)
    <3>1. phase = "playing" /\ ~prompting => Ticking(timers) = {Idle}
      BY <1>1 DEF TimersOK, WatchdogArmed, Ticking
    <3>2. t \in Ticking(timers) => t.live
      BY DEF Ticking
    <3> QED
      BY <1>1, <1>3, <3>1, <3>2, NewTimers DEF IsCurrent
  <2> QED
    BY <1>1, <1>3, <2>1, IgnoredKeepsWatch
<1> QED
  BY <1>2, <1>3 DEF OnGrace

LEMMA OnResolveKeepsWatch ==
  ASSUME GameOK, TimersOK, NEW t \in timers, OnResolve(t)
  PROVE  GameOK' /\ TimersOK'
<1>1. ~done /\ t.kind = "resolve"
  BY DEF OnResolve
<1>2. CASE NextRound /\ Continue(PauseOver(timers \ {t}), retriesUsed)
  <2>1. /\ PauseOver(timers \ {t}) \subseteq Timer
        /\ retriesUsed \in 0 .. MaxRetries + 1
    BY PauseOverTimers DEF TimersOK
  <2>2. GameOK'
    BY <1>2, RoundKeepsGame
  <2> QED
    BY <1>1, <1>2, <2>1, <2>2, Continued
<1>3. CASE phase # "result" /\ Ignored(t)
  <2>1. t \notin Ticking(timers)
    BY <1>1 DEF Ticking
  <2> QED
    BY <1>1, <1>3, <2>1, IgnoredKeepsWatch
<1> QED
  BY <1>2, <1>3 DEF OnResolve

LEMMA WatchInit == Init => GameOK /\ TimersOK
<1> SUFFICES ASSUME Init PROVE GameOK /\ TimersOK
  OBVIOUS
<1>1. /\ phase = "playing" /\ turn \in Seats /\ finished = <<>>
      /\ removed = {} /\ loser = NoSeat
      /\ timers = {Idle} /\ prompting = FALSE /\ retriesUsed = 0
      /\ record = [s \in Seats |-> NoResult] /\ done = FALSE
  BY DEF Init, GameInit
<1>2. turn \in Active
  BY <1>1 DEF Active, ActiveSeats, Range
<1>3. finished \in Seq(Seats) /\ NoRepeats(finished)
  BY <1>1 DEF NoRepeats, IsInjective
<1>4. GameOK
  BY <1>1, <1>2, <1>3 DEF GameOK
<1>5. Ticking(timers) = {Idle} /\ timers \subseteq Timer
  BY <1>1, NewTimers DEF Ticking
<1>6. WatchdogArmed /\ ClicksOK /\ RecordOK
  BY <1>1, <1>5, RoomAssumption DEF WatchdogArmed, ClicksOK, RecordOK, Ticking
<1>7. record \in RecordType
  BY <1>1, SeatsAssumption DEF NoResult, RecordType
<1>8. retriesUsed \in 0 .. MaxRetries + 1
  BY <1>1, RoomAssumption
<1> QED
  BY <1>1, <1>4, <1>5, <1>6, <1>7, <1>8 DEF TimersOK

LEMMA WatchStep ==
  ASSUME GameOK, TimersOK, [Next]_vars
  PROVE  GameOK' /\ TimersOK'
<1>1. CASE UNCHANGED vars
  <2>1. UNCHANGED gameVars
    BY <1>1 DEF vars
  <2>2. UNCHANGED <<gameVars, timers, prompting, retriesUsed, record, done>>
    BY <1>1 DEF vars, roomVars
  <2> QED
    BY <2>1, <2>2, IdleKeepsGame, UntouchedWatch
<1>2. ASSUME NEW c \in Sockets, OnPlay(c) PROVE GameOK' /\ TimersOK'
  BY <1>2, OnPlayKeepsWatch
<1>3. ASSUME NEW c \in Sockets, OnLeave(c) PROVE GameOK' /\ TimersOK'
  BY <1>3, OnLeaveKeepsWatch
<1>4. ASSUME NEW c \in Sockets, OnImHere(c) PROVE GameOK' /\ TimersOK'
  BY <1>4, OnImHereKeepsWatch
<1>5. ASSUME NEW c \in Sockets, OnDisconnect(c) \/ OnReconnect(c)
      PROVE  GameOK' /\ TimersOK'
  <2>1. UNCHANGED <<gameVars, timers, prompting, retriesUsed, record, done>>
    BY <1>5 DEF OnDisconnect, OnReconnect
  <2> QED
    BY <2>1, IdleKeepsGame, UntouchedWatch
<1>6. ASSUME NEW t \in timers, OnTimer(t) PROVE GameOK' /\ TimersOK'
  BY <1>6, OnIdleKeepsWatch, OnGraceKeepsWatch, OnResolveKeepsWatch DEF OnTimer
<1> QED
  BY <1>1, <1>2, <1>3, <1>4, <1>5, <1>6 DEF Next

-----------------------------------------------------------------------------
(* The sockets.                                                             *)

(* A seat is served on a connection of its own user, and the first seat of  *)
(* a user on none that is gone.                                             *)
SocketsOK ==
  /\ uid \in [Seats -> Users]
  /\ client \in [Seats -> Sockets \cup {NoSocket}]
  /\ sock \in [Sockets -> {"new", "open", "gone", "lost"}]
  /\ \A s \in Seats :
       client[s] # NoSocket =>
         /\ Owner[client[s]] = uid[s]
         /\ IsFirst(s) => sock[client[s]] \in {"open", "lost"}

LEMMA SocketsInit == Init => SocketsOK
<1> SUFFICES ASSUME Init PROVE SocketsOK
  OBVIOUS
<1>1. PICK members \in Tables, away \in SUBSET AwayAtStart :
        /\ uid = [s \in Seats |-> Owner[members[s]]]
        /\ client = members
        /\ sock = [c \in Sockets |->
                     IF c \notin Range(members) THEN "new"
                     ELSE IF \E s \in away : members[s] = c THEN "lost"
                     ELSE "open"]
  BY DEF Init
<1>2. members \in [Seats -> Sockets]
  BY RoomAssumption
<1>3. \A s \in Seats : members[s] \in Sockets /\ members[s] \in Range(members)
  BY <1>2 DEF Range
<1>4. \A s \in Seats : sock[client[s]] \in {"open", "lost"}
  BY <1>1, <1>3
<1>5. /\ uid \in [Seats -> Users] /\ client \in [Seats -> Sockets \cup {NoSocket}]
      /\ \A s \in Seats : Owner[client[s]] = uid[s]
  BY <1>1, <1>2, RoomAssumption
<1>6. sock \in [Sockets -> {"new", "open", "gone", "lost"}]
  BY <1>1
<1> QED
  BY <1>4, <1>5, <1>6 DEF SocketsOK

(* A seat that onImHere or onReconnect serves anew is the first of the user *)
(* who spoke, on a connection that is open.                                 *)
LEMMA ServedAnew ==
  ASSUME SocketsOK, NEW c \in Sockets, NEW s \in Seats, PlayerForUID(c, s),
         client' = [client EXCEPT ![s] = c], uid' = uid,
         sock' \in [Sockets -> {"new", "open", "gone", "lost"}],
         sock'[c] = "open",
         \A d \in Sockets : sock[d] \in {"open", "lost"} => sock'[d] = sock[d]
  PROVE  SocketsOK'
<1>1. Owner[c] = uid[s]
  BY DEF PlayerForUID
<1>2. \A t \in Seats : client'[t] = IF t = s THEN c ELSE client[t]
  BY DEF SocketsOK
<1>3. \A t \in Seats : IsFirst(t)' = IsFirst(t)
  BY DEF IsFirst
<1>4. client' \in [Seats -> Sockets \cup {NoSocket}]
  BY DEF SocketsOK
<1>5. ASSUME NEW t \in Seats, client'[t] # NoSocket
      PROVE  /\ Owner[client'[t]] = uid'[t]
             /\ IsFirst(t)' => sock'[client'[t]] \in {"open", "lost"}
  <2>1. CASE t = s
    BY <1>1, <1>2, <2>1
  <2>2. CASE t # s
    <3>1. client'[t] = client[t] /\ client[t] \in Sockets
      BY <1>2, <1>5, <2>2 DEF SocketsOK
    <3> QED
      BY <1>3, <1>5, <3>1 DEF SocketsOK
  <2> QED
    BY <2>1, <2>2
<1> QED
  BY <1>4, <1>5 DEF SocketsOK

LEMMA SocketsStep ==
  ASSUME SocketsOK, [Next]_vars
  PROVE  SocketsOK'
<1>1. ASSUME UNCHANGED <<uid, client, sock>> PROVE SocketsOK'
  BY <1>1 DEF SocketsOK, IsFirst
<1>2. CASE UNCHANGED vars
  BY <1>1, <1>2 DEF vars, roomVars
<1>3. ASSUME NEW c \in Sockets, OnPlay(c) \/ OnLeave(c) PROVE SocketsOK'
  BY <1>1, <1>3 DEF OnPlay, OnLeave
<1>4. ASSUME NEW t \in timers, OnTimer(t) PROVE SocketsOK'
  BY <1>1, <1>4 DEF OnTimer, OnIdle, OnGrace, OnResolve, Ignored
<1>5. ASSUME NEW c \in Sockets, OnImHere(c) PROVE SocketsOK'
  <2>1. /\ client' = [client EXCEPT ![turn] = c] /\ sock' = sock /\ uid' = uid
        /\ sock[c] = "open" /\ turn \in Seats /\ PlayerForUID(c, turn)
    BY <1>5 DEF OnImHere
  <2>2. sock' \in [Sockets -> {"new", "open", "gone", "lost"}]
    BY <2>1 DEF SocketsOK
  <2> QED
    BY <2>1, <2>2, ServedAnew
<1>6. ASSUME NEW c \in Sockets, OnDisconnect(c) PROVE SocketsOK'
  <2>1. /\ sock' = [sock EXCEPT ![c] = "gone"] /\ uid' = uid
        /\ client' = ClientAfterLoss(c)
    BY <1>6 DEF OnDisconnect
  <2>2. ASSUME NEW s \in Seats, client'[s] # NoSocket
        PROVE  client'[s] = client[s] /\ ~PlayerOf(c, s)
    BY <2>1, <2>2 DEF ClientAfterLoss
  <2>3. ASSUME NEW s \in Seats, client[s] = c, IsFirst(s)
        PROVE  PlayerOf(c, s)
    <3>1. \A t \in Seats : client[t] = c => uid[t] = uid[s]
      BY <2>3, RoomAssumption DEF SocketsOK
    <3> QED
      BY <2>3, <3>1 DEF PlayerOf, IsFirst
  <2>4. \A s \in Seats : IsFirst(s)' = IsFirst(s)
    BY <2>1 DEF IsFirst
  <2>5. ASSUME NEW s \in Seats, client'[s] # NoSocket
        PROVE  /\ Owner[client'[s]] = uid'[s]
               /\ IsFirst(s)' => sock'[client'[s]] \in {"open", "lost"}
    <3>1. client'[s] = client[s] /\ client[s] \in Sockets
      BY <2>2, <2>5 DEF SocketsOK
    <3>2. IsFirst(s) => client[s] # c
      BY <2>2, <2>3, <2>5
    <3> QED
      BY <2>1, <2>4, <2>5, <3>1, <3>2 DEF SocketsOK
  <2>6. client' \in [Seats -> Sockets \cup {NoSocket}]
    BY <2>1 DEF SocketsOK, ClientAfterLoss
  <2>7. sock' \in [Sockets -> {"new", "open", "gone", "lost"}]
    BY <2>1 DEF SocketsOK
  <2> QED
    BY <2>1, <2>5, <2>6, <2>7 DEF SocketsOK
<1>7. ASSUME NEW c \in Sockets, OnReconnect(c) PROVE SocketsOK'
  <2>1. PICK s \in Seats :
          /\ PlayerForUID(c, s)
          /\ client' = IF s \in removed THEN client ELSE [client EXCEPT ![s] = c]
    BY <1>7 DEF OnReconnect
  <2>2. /\ sock' = [sock EXCEPT ![c] = "open"] /\ uid' = uid /\ sock[c] = "new"
        /\ sock' \in [Sockets -> {"new", "open", "gone", "lost"}]
    BY <1>7 DEF OnReconnect, SocketsOK
  <2>3. /\ sock'[c] = "open"
        /\ \A d \in Sockets : sock[d] \in {"open", "lost"} => sock'[d] = sock[d]
    BY <2>2 DEF SocketsOK
  <2>4. CASE client' = client
    BY <2>2, <2>3, <2>4 DEF SocketsOK, IsFirst
  <2> QED
    BY <2>1, <2>2, <2>3, <2>4, ServedAnew
<1> QED
  BY <1>2, <1>3, <1>4, <1>5, <1>6, <1>7 DEF Next

LEMMA DetachedStep ==
  ASSUME SocketsOK, [Next]_vars
  PROVE  [\A s \in Seats :
            client[s] # NoSocket /\ client'[s] = NoSocket =>
              sock'[client[s]] = "gone"]_vars
<1> SUFFICES ASSUME Next, NEW s \in Seats,
                    client[s] # NoSocket, client'[s] = NoSocket
             PROVE  sock'[client[s]] = "gone"
  OBVIOUS
<1>1. ~ UNCHANGED client
  OBVIOUS
<1>2. ASSUME NEW c \in Sockets, OnDisconnect(c) PROVE sock'[client[s]] = "gone"
  <2>1. /\ sock' = [sock EXCEPT ![c] = "gone"]
        /\ client'[s] = IF PlayerOf(c, s) THEN NoSocket ELSE client[s]
    BY <1>2 DEF OnDisconnect, ClientAfterLoss
  <2>2. client[s] = c
    BY <2>1 DEF PlayerOf
  <2> QED
    BY <2>1, <2>2 DEF SocketsOK
<1>3. ASSUME NEW c \in Sockets, OnImHere(c) \/ OnReconnect(c) PROVE FALSE
  <2>1. client' = client \/ \E t \in Seats : client' = [client EXCEPT ![t] = c]
    BY <1>3 DEF OnImHere, OnReconnect
  <2>2. client'[s] \in {c, client[s]}
    BY <2>1 DEF SocketsOK
  <2> QED
    BY <2>2, RoomAssumption
<1>4. ASSUME NEW c \in Sockets, OnPlay(c) \/ OnLeave(c) PROVE FALSE
  BY <1>1, <1>4 DEF OnPlay, OnLeave
<1>5. ASSUME NEW t \in timers, OnTimer(t) PROVE FALSE
  BY <1>1, <1>5 DEF OnTimer, OnIdle, OnGrace, OnResolve, Ignored
<1> QED
  BY <1>2, <1>3, <1>4, <1>5 DEF Next

-----------------------------------------------------------------------------
(* The warnings.                                                            *)

(* While the prompt shows, the seat in turn has been warned, or its player  *)
(* has been away all along and has not clicked.                             *)
WarningOK ==
  /\ reason \in [Seats -> {"none", "left", "timeout"}]
  /\ warned \subseteq Seats
  /\ ~done /\ prompting /\ turn \notin warned =>
       client[turn] = NoSocket /\ retriesUsed = 0

RoomInv == GameOK /\ TimersOK /\ SocketsOK /\ WarningOK

LEMMA WarningInit == Init => WarningOK
BY DEF Init, WarningOK

(* The handlers that go on with Continue leave no prompt behind.            *)
LEMMA WarningWithoutPrompt ==
  ASSUME WarningOK, ~prompting', warned' = WarnedAfter,
         \/ reason' = reason
         \/ \E s \in Seats, why \in {"left", "timeout"} :
              reason' = [reason EXCEPT ![s] = why]
  PROVE  WarningOK'
<1>1. reason' \in [Seats -> {"none", "left", "timeout"}]
  BY DEF WarningOK
<1>2. warned' \subseteq Seats
  BY DEF WarningOK, WarnedAfter
<1> QED
  BY <1>1, <1>2 DEF WarningOK

(* A prompt that shows after a step has been sent to the seat in turn if it *)
(* is connected.                                                            *)
LEMMA WarnedOrAway ==
  ASSUME WarningOK, turn \in Seats, Warn, UNCHANGED <<turn, reason>>,
         client'[turn] = NoSocket => retriesUsed' = 0
  PROVE  WarningOK'
BY DEF WarningOK, Warn

LEMMA WarningStep ==
  ASSUME RoomInv, [Next]_vars
  PROVE  WarningOK'
<1> USE DEF RoomInv
<1>1. ASSUME UNCHANGED <<gameVars, client, retriesUsed, reason, warned, done>>,
             prompting' = prompting
      PROVE  WarningOK'
  BY <1>1 DEF WarningOK, gameVars
<1>2. CASE UNCHANGED vars
  BY <1>1, <1>2 DEF vars, roomVars
<1>3. ASSUME NEW c \in Sockets, OnPlay(c) PROVE WarningOK'
  <2>1. ~prompting' /\ warned' = WarnedAfter /\ reason' = reason
    BY <1>3, OnPlayKeepsWatch DEF OnPlay
  <2> QED
    BY <2>1, WarningWithoutPrompt
<1>4. ASSUME NEW s \in Seats, NEW why \in {"left", "timeout"},
             NEW ts, ts \subseteq Timer, NEW used \in 0 .. MaxRetries + 1,
             Forfeit(s, why, ts, used), ~done
      PROVE  WarningOK'
  <2>1. ~prompting' /\ warned' = WarnedAfter
        /\ reason' = [reason EXCEPT ![s] = why]
    BY <1>4, ForfeitKeepsWatch DEF Forfeit
  <2> QED
    BY <2>1, WarningWithoutPrompt
<1>5. ASSUME NEW c \in Sockets, OnLeave(c) PROVE WarningOK'
  <2>1. timers \subseteq Timer /\ retriesUsed \in 0 .. MaxRetries + 1
    BY DEF TimersOK
  <2> QED
    BY <1>4, <1>5, <2>1 DEF OnLeave
<1>6. ASSUME NEW c \in Sockets, OnDisconnect(c) PROVE WarningOK'
  <2>1. /\ UNCHANGED <<gameVars, prompting, retriesUsed, reason, warned, done>>
        /\ client' = [s \in Seats |->
                        IF PlayerOf(c, s) THEN NoSocket ELSE client[s]]
    BY <1>6 DEF OnDisconnect, ClientAfterLoss
  <2>2. ~done /\ prompting => turn \in Seats
    BY PromptInPlay
  <2>3. ~done /\ prompting /\ client[turn] = NoSocket =>
          client'[turn] = NoSocket
    BY <2>1, <2>2 DEF SocketsOK
  <2> QED
    BY <2>1, <2>3 DEF WarningOK, gameVars
<1>7. ASSUME NEW c \in Sockets, OnReconnect(c) PROVE WarningOK'
  <2>1. /\ ~done
        /\ UNCHANGED <<gameVars, prompting, retriesUsed, reason, done>>
    BY <1>7 DEF OnReconnect
  <2>2. PICK s \in Seats :
          /\ client' = IF s \in removed THEN client ELSE [client EXCEPT ![s] = c]
          /\ IF prompting /\ s \notin removed THEN Warn ELSE UNCHANGED warned
    BY <1>7 DEF OnReconnect
  <2>3. CASE prompting /\ s \notin removed
    <3>1. Warn /\ turn \in Seats /\ turn' = turn
      BY <2>1, <2>2, <2>3, PromptInPlay DEF gameVars
    <3>2. client'[turn] \in {c, client[turn]}
      BY <2>2, <2>3, <3>1 DEF SocketsOK
    <3>3. CASE client'[turn] # NoSocket
      BY <2>1, <3>1, <3>3, WarnedOrAway
    <3>4. CASE client'[turn] = NoSocket
      <4>1. client[turn] = NoSocket /\ warned' = warned
        BY <3>1, <3>2, <3>4, RoomAssumption DEF Warn
      <4> QED
        BY <2>1, <3>1, <3>4, <4>1 DEF WarningOK
    <3> QED
      BY <3>3, <3>4
  <2>4. CASE s \in removed
    <3>1. client' = client /\ warned' = warned
      BY <2>2, <2>4
    <3> QED
      BY <1>1, <2>1, <3>1
  <2>5. CASE ~prompting
    <3>1. warned' = warned
      BY <2>2, <2>5
    <3> QED
      BY <2>1, <2>5, <3>1 DEF WarningOK
  <2> QED
    BY <2>3, <2>4, <2>5
<1>8. ASSUME NEW c \in Sockets, OnImHere(c) PROVE WarningOK'
  <2>1. /\ ~done /\ prompting /\ turn \in Seats
        /\ client' = [client EXCEPT ![turn] = c]
    BY <1>8 DEF OnImHere
  <2>2. timers \subseteq Timer /\ retriesUsed + 1 \in 0 .. MaxRetries + 1
    BY <2>1, PromptInPlay, RoomAssumption DEF TimersOK
  <2>3. CASE Forfeit(turn, "timeout", timers, retriesUsed + 1)
    BY <1>4, <2>1, <2>2, <2>3
  <2>4. CASE Warn /\ UNCHANGED <<gameVars, prompting, reason, record, done>>
    <3>1. client'[turn] # NoSocket
      BY <2>1, RoomAssumption DEF SocketsOK
    <3> QED
      BY <2>1, <2>4, <3>1, WarnedOrAway DEF gameVars
  <2> QED
    BY <1>8, <2>1, <2>3, <2>4 DEF OnImHere
<1>9. ASSUME NEW t \in timers, OnIdle(t) PROVE WarningOK'
  <2>1. CASE ~IsCurrent(t) /\ Ignored(t)
    BY <1>1, <2>1 DEF Ignored
  <2>2. CASE IsCurrent(t) /\ Warn
             /\ UNCHANGED <<gameVars, retriesUsed, reason>>
    <3>1. retriesUsed = 0
      BY <1>9, <2>2, IdleIsFirst DEF OnIdle
    <3>2. turn \in Seats
      BY <2>2 DEF IsCurrent, GameOK, Active, ActiveSeats
    <3> QED
      BY <2>2, <3>1, <3>2, WarnedOrAway DEF gameVars
  <2> QED
    BY <1>9, <2>1, <2>2 DEF OnIdle
<1>10. ASSUME NEW t \in timers, OnGrace(t) PROVE WarningOK'
  <2>1. CASE ~(IsCurrent(t) /\ prompting) /\ Ignored(t)
    BY <1>1, <2>1 DEF Ignored
  <2>2. CASE /\ ~done /\ IsCurrent(t) /\ prompting
             /\ Forfeit(turn, "timeout", timers \ {t}, retriesUsed)
    <3>1. turn \in Seats /\ timers \ {t} \subseteq Timer
          /\ retriesUsed \in 0 .. MaxRetries + 1
      BY <2>2, PromptInPlay DEF TimersOK
    <3> QED
      BY <1>4, <2>2, <3>1
  <2> QED
    BY <1>10, <2>1, <2>2 DEF OnGrace
<1>11. ASSUME NEW t \in timers, OnResolve(t) PROVE WarningOK'
  <2>1. CASE phase # "result" /\ Ignored(t)
    BY <1>1, <2>1 DEF Ignored
  <2>2. CASE /\ ~done /\ NextRound /\ warned' = WarnedAfter /\ reason' = reason
             /\ Continue(PauseOver(timers \ {t}), retriesUsed)
    <3>1. /\ PauseOver(timers \ {t}) \subseteq Timer
          /\ retriesUsed \in 0 .. MaxRetries + 1
      BY PauseOverTimers DEF TimersOK
    <3>2. GameOK'
      BY <2>2, RoundKeepsGame
    <3>3. ~prompting'
      BY <2>2, <3>1, <3>2, Continued
    <3> QED
      BY <2>2, <3>3, WarningWithoutPrompt
  <2> QED
    BY <1>11, <2>1, <2>2 DEF OnResolve
<1> QED
  BY <1>2, <1>3, <1>5, <1>6, <1>7, <1>8, <1>9, <1>10, <1>11 DEF Next, OnTimer

LEMMA BurnedStep ==
  ASSUME RoomInv, [Next]_vars
  PROVE  [\A s \in Seats :
            reason'[s] = "timeout" /\ reason[s] # "timeout" =>
              turn = s /\ (s \in warned \/ client'[s] = NoSocket)]_vars
<1> SUFFICES ASSUME Next, NEW s \in Seats,
                    reason'[s] = "timeout", reason[s] # "timeout"
             PROVE  turn = s /\ (s \in warned \/ client'[s] = NoSocket)
  OBVIOUS
<1>1. reason' # reason /\ reason \in [Seats -> {"none", "left", "timeout"}]
  BY DEF RoomInv, WarningOK
<1>2. ASSUME NEW c \in Sockets, OnLeave(c) PROVE FALSE
  <2>1. \E u \in Seats : reason' = [reason EXCEPT ![u] = "left"]
    BY <1>2 DEF OnLeave, Forfeit
  <2> QED
    BY <1>1, <2>1
<1>3. ASSUME NEW c \in Sockets, OnImHere(c)
      PROVE  turn = s /\ s \in warned
  <2>1. /\ ~done /\ prompting /\ turn \in Seats
        /\ retriesUsed + 1 > MaxRetries
        /\ reason' = [reason EXCEPT ![turn] = "timeout"]
    BY <1>1, <1>3 DEF OnImHere, Forfeit
  <2>2. s = turn
    BY <1>1, <2>1
  <2>3. retriesUsed # 0
    BY <2>1, RoomAssumption
  <2> QED
    BY <2>1, <2>2, <2>3 DEF RoomInv, WarningOK
<1>4. ASSUME NEW t \in timers, OnGrace(t)
      PROVE  turn = s /\ (s \in warned \/ client'[s] = NoSocket)
  <2>1. /\ ~done /\ prompting /\ client' = client
        /\ reason' = [reason EXCEPT ![turn] = "timeout"]
    BY <1>1, <1>4 DEF OnGrace, Forfeit, Ignored
  <2>2. s = turn
    BY <1>1, <2>1
  <2> QED
    BY <2>1, <2>2 DEF RoomInv, WarningOK
<1>5. ASSUME NEW c \in Sockets, OnPlay(c) \/ OnDisconnect(c) \/ OnReconnect(c)
      PROVE  FALSE
  BY <1>1, <1>5 DEF OnPlay, OnDisconnect, OnReconnect
<1>6. ASSUME NEW t \in timers, OnIdle(t) \/ OnResolve(t) PROVE FALSE
  BY <1>1, <1>6 DEF OnIdle, OnResolve, Ignored
<1> QED
  BY <1>2, <1>3, <1>4, <1>5, <1>6 DEF Next, OnTimer

-----------------------------------------------------------------------------
(* The results.                                                             *)

LEMMA ResultsFromRecord ==
  ASSUME GameOK, TimersOK
  PROVE  ResultsFit
<1> SUFFICES ASSUME done PROVE ResultsFit
  BY DEF ResultsFit
<1>1. /\ phase = "gameOver" /\ loser \in {NoSeat, TerminalLoser(finished, removed)}
      /\ finished \in Seq(Seats) /\ NoRepeats(finished)
  BY DEF GameOK, TimersOK, WatchdogArmed
<1>2. \A s \in Seats : /\ record[s].won = ~IsLoss(s, removed, loser)
                       /\ record[s].placement = Placement(s, finished)
  BY DEF TimersOK, RecordOK
<1>3. ASSUME NEW s \in Seats, NEW t \in Seats, s # t,
             record[s].placement = record[t].placement
      PROVE  record[s].placement = N
  <2>1. Placement(s, finished) = Placement(t, finished)
    BY <1>2, <1>3
  <2>2. \A r \in Range(finished) : finished[IndexOf(finished, r)] = r
    BY <1>1, RemoveIntRemoves
  <2>3. ~(s \in Range(finished) /\ t \in Range(finished))
    BY <1>3, <2>1, <2>2 DEF Placement
  <2> QED
    BY <1>2, <2>1, <2>3 DEF Placement
<1>4. ASSUME NEW s \in Seats \ removed, ~record[s].won
      PROVE  removed = {} /\ Range(finished) = Seats \ {s}
  <2>1. s = loser /\ loser # NoSeat
    <3>1. record[s].won = ~IsLoss(s, removed, loser) /\ ~record[s].won
      BY <1>2, <1>4
    <3>2. IsLoss(s, removed, loser)
      BY <3>1, Zenon
    <3> QED
      BY <1>4, <3>2, SeatsAssumption DEF IsLoss, Seats, NoSeat
  <2>2. removed = {} /\ ActiveSeats(finished, removed) = {s}
    BY <1>1, <2>1, LoserIsOnlyActive
  <2>3. Range(finished) \subseteq Seats
    BY <1>1, LenProperties DEF Range
  <2> QED
    BY <2>2, <2>3 DEF ActiveSeats
<1> QED
  BY <1>3, <1>4 DEF ResultsFit

-----------------------------------------------------------------------------
(* The theorems.                                                            *)

LEMMA RoomIsSafe == Spec => []RoomInv
<1>1. Init => RoomInv
  BY WatchInit, SocketsInit, WarningInit DEF RoomInv
<1>2. RoomInv /\ [Next]_vars => RoomInv'
  BY WatchStep, SocketsStep, WarningStep DEF RoomInv
<1> QED
  BY <1>1, <1>2, PTL DEF Spec

(* Every variable of the room keeps its type.                               *)
THEOREM RoomTypes == Spec => []TypeOK
<1>1. RoomInv => TypeOK
  BY SeatsAssumption
     DEF RoomInv, GameOK, TimersOK, SocketsOK, WarningOK, RecordType, TypeOK,
         Active, ActiveSeats
<1> QED
  BY <1>1, RoomIsSafe, PTL

(* However plays, clicks, forfeits and stale timers interleave, an open     *)
(* game has the timer that moves it on: run() never waits for a player      *)
(* alone, and a game that is over is closed.                                *)
THEOREM WatchdogIsArmed == Spec => []WatchdogArmed
<1>1. RoomInv => WatchdogArmed
  BY DEF RoomInv, TimersOK
<1> QED
  BY <1>1, RoomIsSafe, PTL

(* No click, disconnect or late reconnect puts a seat on a socket whose     *)
(* disconnect the room has handled, or on another player's socket.          *)
THEOREM SeatsAreServed == Spec => []NotServedOnGoneSocket
<1>1. RoomInv => NotServedOnGoneSocket
  BY DEF RoomInv, SocketsOK, NotServedOnGoneSocket
<1> QED
  BY <1>1, RoomIsSafe, PTL

(* onDisconnect detaches a player from the room only when the socket that   *)
(* went is the one the player was served on.                                *)
THEOREM OwnSocketDetaches == Spec => DetachedByItsOwnSocket
<1>1. RoomInv /\ [Next]_vars =>
        [\A s \in Seats :
           client[s] # NoSocket /\ client'[s] = NoSocket =>
             sock'[client[s]] = "gone"]_vars
  BY DetachedStep DEF RoomInv
<1> QED
  BY <1>1, RoomIsSafe, PTL DEF Spec, DetachedByItsOwnSocket

(* onGrace and onImHere burn the seat in turn alone, and a connected player *)
(* only after sendPrompt has addressed the seat in this turn.               *)
THEOREM NobodyIsBurnedBySurprise == Spec => BurnedAfterWarning
<1>1. RoomInv /\ [Next]_vars =>
        [\A s \in Seats :
           reason'[s] = "timeout" /\ reason[s] # "timeout" =>
             turn = s /\ (s \in warned \/ client'[s] = NoSocket)]_vars
  BY BurnedStep DEF RoomInv
<1> QED
  BY <1>1, RoomIsSafe, PTL DEF Spec, BurnedAfterWarning

(* finishGame records results that fit together: finishers have different   *)
(* placements, and whoever stayed and lost was alone with cards at a table  *)
(* nobody left.                                                             *)
THEOREM RecordsFit == Spec => []ResultsFit
<1>1. RoomInv => ResultsFit
  BY ResultsFromRecord DEF RoomInv
<1> QED
  BY <1>1, RoomIsSafe, PTL
=============================================================================
