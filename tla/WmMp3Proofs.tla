---------------------------- MODULE WmMp3Proofs ----------------------------
(***************************************************************************)
(* Proofs about the player control of wmmp3, for any directories and any   *)
(* number of processes.                                                    *)
(*                                                                         *)
(* Both properties follow from what play_pid says wherever the main loop   *)
(* is interrupted (Calm): it names none while the main loop starts a song, *)
(* and none is there then whose signal could bring the handler in between. *)
(* As long as nobody stops or continues a player, a signal is on its way   *)
(* only when the process play_pid names is dead, so that the handler waits *)
(* for nothing (Prompt).                                                   *)
(***************************************************************************)
EXTENDS WmMp3, SequenceTheorems, TLAPS

LEMMA SongsType ==
    /\ Len(Songs) \in Nat /\ 1 \in 1 .. Len(Songs)
    /\ \A d \in 1 .. Len(Songs) : Songs[d] \in Nat
  BY Mp3Assumption, LenProperties, ElementOfSeq

\* Where a song is looked for is a place in a directory.
PlaceType == [song : Nat, songs : Nat, dir : 1 .. Len(Songs)]

LEMMA LoadedType == \A d \in 1 .. Len(Songs) : Loaded(d) \in PlaceType
  BY SongsType DEF Loaded, PlaceType

LEMMA DirType ==
    ASSUME TypeOK
    PROVE  NextDir \in 1 .. Len(Songs) /\ PrevDir \in 1 .. Len(Songs)
  BY SongsType DEF TypeOK, NextDir, PrevDir

LEMMA ChosenType ==
    ASSUME TypeOK
    PROVE  Chosen \in PlaceType
  <1>1. Loaded(NextDir) \in PlaceType
    BY DirType, LoadedType
  <1>2. \A n \in Nat : [song |-> n, songs |-> num_songs, dir |-> current_dir] \in PlaceType
    BY DEF TypeOK, PlaceType
  <1> QED
    BY <1>1, <1>2 DEF Chosen, TypeOK

LEMMA CountedType ==
    ASSUME NEW c \in PlaceType
    PROVE  [c EXCEPT !.song = @ + 1] \in PlaceType
  BY DEF PlaceType

LEMMA MoveType ==
    ASSUME NEW c \in PlaceType, MoveTo(c)
    PROVE  next_song' \in Nat /\ num_songs' \in Nat /\ current_dir' \in 1 .. Len(Songs)
  BY DEF MoveTo, PlaceType

LEMMA TypeStep == TypeOK /\ [Next]_vars => TypeOK'
  <1> SUFFICES ASSUME TypeOK, [Next]_vars
               PROVE  TypeOK'
    OBVIOUS
  <1> USE Mp3Assumption, ChosenType DEF TypeOK, Places, States, Failed, history
  <1>1. ASSUME NEW k \in Pids, SongEnds(k)
        PROVE  TypeOK'
    BY <1>1 DEF SongEnds, Corpse, Raised, JustBorn, place
  <1>0. ASSUME NEW k \in Pids, Suspend(k)
        PROVE  TypeOK'
    <2>1. kid' \in [Pids -> States]
      BY <1>0 DEF Suspend
    <2>2. pending' \in BOOLEAN /\ early' \in BOOLEAN /\ paused' \in BOOLEAN
      BY <1>0 DEF Suspend, Raised, JustBorn
    <2> QED
      BY <1>0, <2>1, <2>2 DEF Suspend, place
  <1>2. CASE Deliver
    BY <1>2 DEF Deliver, place
  <1>3. CASE SignalPlay
    <2>1. PICK buried \in Buried :
            IF HasSong(Chosen)
            THEN \E k \in {x \in Pids : buried[x] = "none"} \cup {Failed} :
                   /\ kid' = Born(k, buried)
                   /\ play_pid' = k
                   /\ MoveTo([Chosen EXCEPT !.song = @ + 1])
            ELSE kid' = buried /\ play_pid' = 0 /\ MoveTo(Chosen)
      BY <1>3, Zenon DEF SignalPlay
    <2>2. buried \in [Pids -> States]
      BY <2>1 DEF Buried, Awaited, Zombies
    <2>3. [Chosen EXCEPT !.song = @ + 1] \in PlaceType
      BY CountedType
    <2>4. kid' \in [Pids -> States] /\ play_pid' \in Pids \cup {0, Failed}
      <3>1. CASE HasSong(Chosen)
        <4>1. PICK k \in Pids \cup {Failed} : kid' = Born(k, buried) /\ play_pid' = k
          BY <2>1, <3>1
        <4> QED
          BY <2>2, <4>1 DEF Born
      <3>2. CASE ~HasSong(Chosen)
        BY <2>1, <2>2, <3>2
      <3> QED
        BY <3>1, <3>2
    <2>5. /\ next_song' \in Nat /\ num_songs' \in Nat
          /\ current_dir' \in 1 .. Len(Songs)
      BY <2>1, <2>3, MoveType
    <2> QED
      BY <1>3, <2>4, <2>5 DEF SignalPlay
  <1>4. CASE Pick
    <2>1. MoveTo(Chosen)
      BY <1>4 DEF Pick
    <2> QED
      BY <1>4, <2>1, MoveType DEF Pick
  <1>5. CASE Fork
    BY <1>5 DEF Fork, Free, Born, place
  <1>6. CASE Assign \/ Count \/ Install
    BY <1>6 DEF Assign, Count, Install, place
  <1>7. CASE Ignore \/ KillGroup
    BY <1>7 DEF Ignore, KillGroup, place
  <1>8. ASSUME NEW b \in {"stop", "next", "back"}, GoOn(b)
        PROVE  next_song' \in Nat /\ main' \in {"idle", "pick"}
    BY <1>8 DEF GoOn, StepBack
  <1>9. CASE Kill
    <2>1. PICK b : b = after /\ GoOn(b)
      BY <1>9 DEF Kill
    <2>2. next_song' \in Nat /\ main' \in {"idle", "pick"}
      BY <2>1 DEF GoOn, StepBack
    <2> QED
      BY <1>9, <2>2 DEF Kill
  <1>16. CASE KillAll
    <2>1. PICK b : b = after /\ GoOn(b)
      BY <1>16 DEF KillAll
    <2>2. next_song' \in Nat /\ main' \in {"idle", "pick"}
      BY <2>1 DEF GoOn, StepBack
    <2>3. \A buried \in Buried : buried \in [Pids -> States]
      BY DEF Buried, Awaited, Zombies
    <2>4. kid' \in [Pids -> States]
      BY <1>16, <2>3 DEF KillAll
    <2> QED
      BY <1>16, <2>2, <2>4 DEF KillAll
  <1>10. ASSUME NEW b \in {"stop", "next", "back"}, ClickSilent(b) \/ ClickPlaying(b)
         PROVE  TypeOK'
    BY <1>8, <1>10 DEF ClickSilent, ClickPlaying, place
  <1>11. ASSUME NEW d \in 1 .. Len(Songs), MoveTo(Loaded(d))
         PROVE  /\ next_song' \in Nat /\ num_songs' \in Nat
                /\ current_dir' \in 1 .. Len(Songs)
    BY <1>11, LoadedType, MoveType
  <1>12. CASE ClickPlay
    BY <1>11, <1>12 DEF ClickPlay
  <1>13. CASE ClickDir
    BY <1>11, <1>13, DirType DEF ClickDir
  <1>14. CASE ClickRepeat
    <2>1. repeat_flag' \in BOOLEAN
      BY <1>14, Zenon DEF ClickRepeat
    <2> QED
      BY <1>14, <2>1 DEF ClickRepeat, place
  <1>15. CASE Close \/ UNCHANGED vars
    BY <1>15 DEF Close, vars, place
  <1> HIDE Mp3Assumption, ChosenType DEF TypeOK, Places, States, Failed, history
  <1> QED
    BY <1>0, <1>1, <1>2, <1>3, <1>4, <1>5, <1>6, <1>7, <1>9, <1>10, <1>12, <1>13,
       <1>14, <1>15, <1>16
       DEF Next, Click, Work, Handler

\* Every variable keeps its type: current_dir stays among the directories and
\* next_song never becomes negative, whatever is clicked and whatever ends.
THEOREM TypeCorrect == Spec => []TypeOK
  <1>1. Init => TypeOK
    <2> SUFFICES ASSUME Init
                 PROVE  TypeOK
      OBVIOUS
    <2>1. 0 \in Nat /\ current_dir \in 1 .. Len(Songs)
      BY SongsType DEF Init
    <2> QED
      BY <2>1 DEF Init, TypeOK, Places, States
  <1> QED
    BY <1>1, TypeStep, PTL DEF Spec

----------------------------------------------------------------------------
(* Where the main loop may be interrupted. *)

Starting == main \in {"assign", "count", "install"}

\* While play_next starts a song, born is its player, if there is one, and no
\* other is; in between it is the player of play_pid.  A SIGCHLD comes of that
\* player, and does not come in the steps of play_next and of stop's kills.
Calm ==
    /\ Starting => born = Failed \/ (born \in Pids /\ born \in Players)
    /\ ~Starting => born = 0
    /\ main \in {"pick", "fork", "assign"} => play_pid = 0 \/ play_pid = Failed
    /\ main \in {"count", "install"} => play_pid = born
    /\ \A k \in Players : k \in {play_pid, born}
    /\ pending => play_pid \in Pids
    /\ pending \/ handling => main \in {"idle", "ignore", "gone"}
    /\ main = "kill" => sigchld = "ignore"

\* The SIGCHLD that waits or is handled is that of the end of the player.
Prompt == /\ pending \/ handling => play_pid \in Pids /\ kid[play_pid] = "zombie"
          /\ ~(pending /\ handling)

\* Nothing is claimed once a player's signal has come before its play_next was
\* over, and Prompt no longer once one has been stopped or continued.
Claims == ~early => Calm /\ (~paused => Prompt)

LEMMA ClaimsStep == TypeOK /\ Claims /\ [Next]_vars => Claims'
  <1> SUFFICES ASSUME TypeOK, Claims, [Next]_vars, ~early'
               PROVE  Calm' /\ (~paused' => Prompt')
    BY DEF Claims
  <1>1. ~early /\ (paused => paused')
    BY DEF Next, Click, Work, Handler, ClickSilent, ClickPlaying, ClickPlay, ClickDir,
           ClickRepeat, Close, Pick, Fork, Assign, Count, Install, Ignore, Kill,
           KillGroup, KillAll, Deliver, SignalPlay, SongEnds, Suspend, vars, history, TypeOK
  <1>2. Calm /\ (~paused => Prompt)
    BY <1>1 DEF Claims
  <1>3. 0 \notin Pids /\ Failed \notin Pids /\ 0 # Failed /\ \A k \in Pids : ~(k <= 0)
    BY Mp3Assumption DEF Failed
  <1> USE <1>1, <1>2, <1>3 DEF Calm, Prompt, Starting, Players
  <1>4. ASSUME NEW k \in Pids, SongEnds(k)
        PROVE  Calm' /\ (~paused' => Prompt')
    <2>1. k = play_pid /\ ~Starting
      BY <1>4 DEF SongEnds, JustBorn
    <2>2. kid' = [kid EXCEPT ![k] = Corpse] /\ pending' = Raised
      BY <1>4 DEF SongEnds
    <2>3. UNCHANGED <<main, born, play_pid, sigchld, handling, paused>>
      BY <1>4 DEF SongEnds
    <2>4. Raised => pending \/ (Corpse = "zombie" /\ sigchld = "play")
      BY DEF Raised, Corpse
    <2>5. Corpse \in {"none", "zombie"}
      BY DEF Corpse
    <2>6. main \in {"idle", "ignore", "kill", "gone"}
      BY <2>1 DEF TypeOK, Places
    <2>7. ~paused => ~pending /\ ~handling
      BY <1>4, <2>1 DEF SongEnds
    <2>8. ~paused' => Prompt'
      BY <2>1, <2>2, <2>3, <2>4, <2>7 DEF TypeOK
    <2>9. \A x \in Pids : kid'[x] = IF x = k THEN Corpse ELSE kid[x]
      BY <2>2 DEF TypeOK
    <2>10. Players' \subseteq Players
      BY <2>5, <2>9
    <2>11. pending' => main # "kill"
      BY <2>2, <2>4
    <2> QED
      BY <2>1, <2>3, <2>6, <2>8, <2>10, <2>11
  <1>5. ASSUME NEW k \in Pids, Suspend(k)
        PROVE  Calm' /\ (~paused' => Prompt')
    <2>1. kid' = [kid EXCEPT ![k] = IF @ = "playing" THEN "stopped" ELSE "playing"]
      BY <1>5 DEF Suspend
    <2>2. Players' = Players
      BY <1>5, <2>1 DEF Suspend, TypeOK
    <2>3. UNCHANGED <<main, born, play_pid, sigchld, handling>>
      BY <1>5 DEF Suspend
    <2>4. /\ pending' = Raised
          /\ paused' = (paused \/ sigchld = "play")
          /\ ~(sigchld = "play" /\ JustBorn(k))
      BY <1>5 DEF Suspend
    <2>5. k \in {play_pid, born}
      BY <1>5 DEF Suspend
    <2>6. CASE sigchld = "play"
      <3>1. ~Starting /\ k = play_pid
        BY <2>4, <2>5, <2>6 DEF JustBorn
      <3>2. main \in {"idle", "ignore", "gone"}
        BY <2>6, <3>1 DEF TypeOK, Places
      <3> QED
        BY <2>2, <2>3, <2>4, <2>6, <3>1, <3>2
    <2>7. CASE sigchld # "play"
      <3>1. pending' = pending /\ paused' = paused
        BY <2>4, <2>7 DEF Raised, TypeOK
      <3>2. \A x \in Pids : x # k => kid'[x] = kid[x]
        BY <2>1 DEF TypeOK
      <3>3. kid[k] # "zombie"
        BY <1>5 DEF Suspend
      <3> QED
        BY <2>2, <2>3, <3>1, <3>2, <3>3
    <2> QED
      BY <2>6, <2>7
  <1>6. CASE Deliver
    BY <1>6 DEF Deliver, history
  <1>7. CASE SignalPlay
    <2>1. handling /\ ~Starting /\ main \notin {"pick", "fork", "kill"} /\ born = 0
      BY <1>7 DEF SignalPlay
    <2>2. PICK buried \in Buried :
            \/ \E k \in Pids : kid' = [buried EXCEPT ![k] = "playing"] /\ play_pid' = k
            \/ kid' = buried /\ play_pid' \in {0, Failed}
      BY <1>7, Zenon DEF SignalPlay, Born
    <2>3. \A k \in Pids : buried[k] \notin {"playing", "stopped"}
      <3>1. \A k \in Players : k = play_pid
        BY <2>1
      <3>2. CASE play_pid \in Pids
        <4>1. Awaited = {play_pid}
          BY <3>2 DEF Awaited
        <4>2. CASE play_pid \in Players
          <5>1. Awaited \cap Zombies = {} /\ Awaited \cap Players # {}
            BY <4>1, <4>2 DEF Zombies
          <5> QED
            BY <1>7, <5>1 DEF SignalPlay, WaitReturns
        <4>3. CASE play_pid \notin Players
          BY <2>2, <3>1, <4>3 DEF TypeOK, Zombies, Buried
        <4> QED
          BY <4>2, <4>3
      <3>3. CASE play_pid \notin Pids
        BY <2>2, <3>1, <3>3 DEF TypeOK, Zombies, Buried
      <3> QED
        BY <3>2, <3>3
    <2>4. \A k \in Players' : k = play_pid'
      <3>1. DOMAIN buried = Pids
        BY <2>2 DEF TypeOK, Buried
      <3> QED
        BY <2>2, <2>3, <3>1
    <2>5. UNCHANGED <<main, born, sigchld, paused>> /\ ~pending' /\ handling' = pending
      BY <1>7 DEF SignalPlay, history
    <2> QED
      BY <2>1, <2>4, <2>5 DEF TypeOK, Places
  <1>8. CASE Pick
    BY <1>8 DEF Pick, Runs, history
  <1>9. CASE Fork
    BY <1>9 DEF Fork, Runs, Free, Born, place, history, TypeOK
  <1>10. CASE Assign
    BY <1>10 DEF Assign, Runs, history
  <1>11. CASE Count
    BY <1>11 DEF Count, Runs, history
  <1>12. CASE Install
    BY <1>12 DEF Install, Runs, history
  <1>13. CASE Ignore
    BY <1>13 DEF Ignore, Runs, history
  <1>14. CASE Kill
    <2>1. main' \in {"idle", "pick"}
      BY <1>14 DEF Kill, GoOn
    <2>5. main = "kill" /\ play_pid > 0
      BY <1>14 DEF Kill, Runs
    <2>6. play_pid \in Pids
      BY <2>5 DEF TypeOK, Failed
    <2>2. ~pending /\ ~handling /\ play_pid \in Pids /\ born = 0
      BY <2>5, <2>6
    <2>3. ~pending' /\ ~handling' /\ play_pid' = 0 /\ born' = 0
      BY <1>14, <2>2 DEF Kill, Runs
    <2>4. Players' = {}
      BY <1>14, <2>2 DEF Kill, TypeOK
    <2> QED
      BY <2>1, <2>3, <2>4
  <1>15. CASE KillGroup
    BY <1>15 DEF KillGroup, Runs, history
  <1>18. CASE KillAll
    <2>1. main' \in {"idle", "pick"}
      BY <1>18 DEF KillAll, GoOn
    <2>2. main = "kill" /\ play_pid = Failed
      BY <1>18 DEF KillAll, Runs
    <2>3. ~pending /\ ~handling /\ born = 0 /\ Players = {}
      BY <2>2
    <2>4. ~pending' /\ ~handling' /\ play_pid' = 0 /\ born' = 0
      BY <1>18, <2>3 DEF KillAll
    <2>5. \A buried \in Buried, k \in Pids : buried[k] \notin {"playing", "stopped"}
      BY <2>3 DEF Buried, Zombies, TypeOK
    <2>6. Players' = {}
      BY <1>18, <2>3, <2>5 DEF KillAll
    <2> QED
      BY <2>1, <2>4, <2>6
  <1>16. ASSUME NEW b \in {"stop", "next", "back"}, ClickSilent(b) \/ ClickPlaying(b)
         PROVE  Calm' /\ (~paused' => Prompt')
    BY <1>16 DEF ClickSilent, ClickPlaying, GoOn, Runs, history, TypeOK
  <1>17. CASE ClickPlay \/ ClickDir \/ ClickRepeat \/ Close \/ UNCHANGED vars
    BY <1>17 DEF ClickPlay, ClickDir, ClickRepeat, Close, Runs, vars, history
  <1> QED
    BY <1>4, <1>5, <1>6, <1>7, <1>8, <1>9, <1>10, <1>11, <1>12, <1>13, <1>14, <1>15, <1>16,
       <1>17, <1>18
       DEF Next, Click, Work, Handler

LEMMA AlwaysClaims == Spec => []Claims
  <1>1. Init => Claims
    <2> SUFFICES ASSUME Init
                 PROVE  Calm /\ Prompt
      BY DEF Claims
    <2> QED
      BY DEF Init, Calm, Prompt, Starting, Players
  <1> QED
    BY <1>1, ClaimsStep, TypeCorrect, PTL DEF Spec

\* When the main loop is at rest there is at most one player, that of play_pid,
\* and none when play_pid is 0 or -1, wherever the handler has interrupted it
\* and whoever stops, continues or kills players: unless a player's signal has
\* come before the play_next that started it was over.
THEOREM OnePlayer == Spec => []PidIsPlayer
  <1>1. Claims => PidIsPlayer
    BY Mp3Assumption DEF Claims, Calm, Starting, PidIsPlayer, Players
  <1> QED
    BY <1>1, AlwaysClaims, PTL

\* The waitpid of the handler never waits for a player that has not ended, as
\* long as nobody stops or continues one.
THEOREM HandlerNeverWaits == Spec => []HandlerReturns
  <1>1. Claims => HandlerReturns
    BY Mp3Assumption
       DEF Claims, Calm, Prompt, HandlerReturns, WaitReturns, Awaited, Players, Zombies
  <1> QED
    BY <1>1, AlwaysClaims, PTL
=============================================================================
