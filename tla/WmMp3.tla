------------------------------- MODULE WmMp3 -------------------------------
(***************************************************************************)
(* The player control of wmmp3 (src/wmmp3/mpg123ctl.c): a main loop that   *)
(* carries out clicks, one child process that plays a song, and the        *)
(* handler of SIGCHLD, which interrupts the main loop anywhere and starts  *)
(* the next song.                                                          *)
(*                                                                         *)
(* A song is a place in its directory.  The title and its scrolling, the   *)
(* pictures of the buttons and the random order, which permutes the songs  *)
(* of a directory behind their places, are left out.  All directories can  *)
(* be read.                                                                *)
(***************************************************************************)
EXTENDS Integers, Sequences, FiniteSets

CONSTANTS
    Songs,  \* the number of songs in each directory of the configuration file
    Pids    \* process numbers, the bound on the players at a time

ASSUME Mp3Assumption ==
    /\ Songs \in Seq(Nat) /\ Len(Songs) > 0
    /\ Pids \subseteq Nat \ {0} /\ IsFiniteSet(Pids)

VARIABLES
    main,         \* where the main loop is, see Places
    after,        \* what the stop() under way belongs to: STOP, NEXT or BACK
    born,         \* what fork() has returned to the play() under way, or 0
    play_pid,
    next_song,
    num_songs,
    current_dir,
    repeat_flag,
    sigchld,      \* what SIGCHLD does: "default", "ignore" or "play"
    pending,      \* a SIGCHLD has been sent and not been delivered
    handling,     \* signal_play is in its waitpid
    kid,          \* each process: "none", "playing", "stopped" or "zombie"
    early,        \* history: a player's signal came before its play_next was over
    paused        \* history: the handler was told of a stop or a continuation

Places == {"idle", "ignore", "kill", "pick", "fork", "assign", "count", "install", "gone"}

place == <<next_song, num_songs, current_dir>>
history == <<early, paused>>
vars  == <<main, after, born, play_pid, place, repeat_flag, sigchld, pending,
           handling, kid, history>>

States  == {"none", "playing", "stopped", "zombie"}
Players == {k \in Pids : kid[k] \in {"playing", "stopped"}}
Zombies == {k \in Pids : kid[k] = "zombie"}

\* set_playlist for directory d.
Loaded(d) == [song |-> 0, songs |-> Songs[d], dir |-> d]

NextDir == IF current_dir < Len(Songs) THEN current_dir + 1 ELSE current_dir
PrevDir == IF current_dir > 1 THEN current_dir - 1 ELSE current_dir

\* Where play_next finds its song.
Chosen ==
    IF next_song < num_songs THEN [song |-> next_song, songs |-> num_songs, dir |-> current_dir]
    ELSE IF repeat_flag THEN [song |-> 0, songs |-> num_songs, dir |-> current_dir]
    ELSE Loaded(NextDir)

\* get_song finds a song there.
HasSong(c) == c.song < c.songs

MoveTo(c) == next_song' = c.song /\ num_songs' = c.songs /\ current_dir' = c.dir

Init ==
    /\ main = "idle" /\ after = "none" /\ born = 0
    /\ play_pid = 0 /\ next_song = 0 /\ num_songs = 0 /\ current_dir = 1
    /\ repeat_flag = FALSE
    /\ sigchld = "default" /\ pending = FALSE /\ handling = FALSE
    /\ kid = [k \in Pids |-> "none"]
    /\ early = FALSE /\ paused = FALSE

----------------------------------------------------------------------------
(* The processes and their signal. *)

\* What becomes of a player that ends: nobody has to wait for it when SIGCHLD
\* is ignored, and only a handler leaves the signal pending.
Corpse == IF sigchld = "ignore" THEN "none" ELSE "zombie"
Raised == pending \/ sigchld = "play"

\* k is the player that play_next is starting.
JustBorn(k) == k = born /\ main \in {"assign", "count", "install"}

\* A song is over, mpg123 cannot be started (_exit (1)), or somebody kills it.
SongEnds(k) ==
    /\ k \in Players
    /\ kid' = [kid EXCEPT ![k] = Corpse]
    /\ pending' = Raised
    /\ early' = (early \/ JustBorn(k))
    /\ UNCHANGED <<main, after, born, play_pid, place, repeat_flag, sigchld, handling, paused>>

\* The user stops a player, or lets it go on (SIGSTOP, SIGCONT).  The handler is
\* installed without SA_NOCLDSTOP: it is told of that too.
Suspend(k) ==
    /\ k \in Players
    /\ kid' = [kid EXCEPT ![k] = IF @ = "playing" THEN "stopped" ELSE "playing"]
    /\ pending' = Raised
    /\ early' = (early \/ (sigchld = "play" /\ JustBorn(k)))
    /\ paused' = (paused \/ sigchld = "play")
    /\ UNCHANGED <<main, after, born, play_pid, place, repeat_flag, sigchld, handling>>

\* What fork() returns: a number that is not in use, or -1.
Failed == -1
Free == {k \in Pids : kid[k] = "none" /\ k # play_pid}
Born(k, kids) == IF k = Failed THEN kids ELSE [kids EXCEPT ![k] = "playing"]

\* waitpid (play_pid): for one child, or with 0 and -1 for any child.  It does
\* not return for one that is stopped.
Awaited     == IF play_pid <= 0 THEN Pids ELSE {play_pid}
WaitReturns == Awaited \cap Players = {} \/ Awaited \cap Zombies # {}
Buried      == IF Awaited \cap Zombies = {} THEN {kid}
               ELSE {[kid EXCEPT ![k] = "none"] : k \in Awaited \cap Zombies}

\* signal_play begins, with SIGCHLD blocked until it ends.
Deliver ==
    /\ main # "gone"
    /\ sigchld = "play" /\ pending /\ ~handling
    /\ handling' = TRUE /\ pending' = FALSE
    /\ UNCHANGED <<main, after, born, play_pid, place, repeat_flag, sigchld, kid, history>>

\* waitpid returns, play_pid = 0, and play_next to its end.  If a signal has
\* come meanwhile the handler begins again, before the main loop gets a turn.
SignalPlay ==
    /\ main # "gone"
    /\ handling /\ WaitReturns
    /\ \E buried \in Buried :
         IF HasSong(Chosen)
         THEN \E k \in {x \in Pids : buried[x] = "none"} \cup {Failed} :
                /\ kid' = Born(k, buried)
                /\ play_pid' = k
                /\ MoveTo([Chosen EXCEPT !.song = @ + 1])
         ELSE kid' = buried /\ play_pid' = 0 /\ MoveTo(Chosen)
    /\ handling' = pending /\ pending' = FALSE
    /\ UNCHANGED <<main, after, born, repeat_flag, sigchld, history>>

----------------------------------------------------------------------------
(* play_next, called by the main loop: it does not run while the handler   *)
(* does.                                                                   *)

Runs(at) == main = at /\ ~handling

\* The song is looked up, after the next directory has been loaded if this one
\* is over.  Without a song that is all.
Pick ==
    /\ Runs("pick")
    /\ MoveTo(Chosen)
    /\ main' = IF HasSong(Chosen) THEN "fork" ELSE "idle"
    /\ UNCHANGED <<after, born, play_pid, repeat_flag, sigchld, pending, handling, kid, history>>

Fork ==
    /\ Runs("fork")
    /\ \E k \in Free \cup {Failed} : born' = k /\ kid' = Born(k, kid)
    /\ main' = "assign"
    /\ UNCHANGED <<after, play_pid, place, repeat_flag, sigchld, pending, handling, history>>

Assign ==
    /\ Runs("assign")
    /\ play_pid' = born
    /\ main' = "count"
    /\ UNCHANGED <<after, born, place, repeat_flag, sigchld, pending, handling, kid, history>>

Count ==
    /\ Runs("count")
    /\ next_song' = next_song + 1
    /\ main' = "install"
    /\ UNCHANGED <<after, born, play_pid, num_songs, current_dir, repeat_flag, sigchld,
                   pending, handling, kid, history>>

\* Mutation: play_next leaves SIGCHLD as it is.
InstallNothing ==
    /\ Runs("install")
    /\ main' = "idle" /\ born' = 0
    /\ UNCHANGED <<after, play_pid, place, repeat_flag, sigchld, pending, handling, kid, history>>

\* signal (SIGCHLD, signal_play).
Install ==
    /\ Runs("install")
    /\ sigchld' = "play"
    /\ main' = "idle" /\ born' = 0
    /\ UNCHANGED <<after, play_pid, place, repeat_flag, pending, handling, kid, history>>

----------------------------------------------------------------------------
(* The buttons.  NEXT and BACK begin with a stop(). *)

\* play_prev.  Mutation: two songs back from any.
StepFarBack == next_song' = next_song - 2
StepBack    == next_song' = IF next_song <= 1 THEN 0 ELSE next_song - 2

\* What follows stop() for button b.
GoOn(b) ==
    \/ b = "stop" /\ main' = "idle" /\ UNCHANGED next_song
    \/ b = "next" /\ main' = "pick" /\ UNCHANGED next_song
    \/ b = "back" /\ main' = "pick" /\ StepBack

ClickSilent(b) ==
    /\ Runs("idle") /\ play_pid <= 0
    /\ GoOn(b)
    /\ UNCHANGED <<after, born, play_pid, num_songs, current_dir, repeat_flag, sigchld,
                   pending, handling, kid, history>>

\* stop() finds a player; the handler may still come before SIGCHLD is ignored.
ClickPlaying(b) ==
    /\ Runs("idle") /\ play_pid > 0
    /\ after' = b /\ main' = "ignore"
    /\ UNCHANGED <<born, play_pid, place, repeat_flag, sigchld, pending, handling, kid, history>>

\* Mutation: the signal of the player that is killed is not ignored.
IgnoreNothing ==
    /\ Runs("ignore")
    /\ main' = "kill"
    /\ UNCHANGED <<after, born, play_pid, place, repeat_flag, sigchld, pending, handling, kid,
                   history>>

Ignore ==
    /\ Runs("ignore")
    /\ sigchld' = "ignore" /\ pending' = FALSE
    /\ main' = "kill"
    /\ UNCHANGED <<after, born, play_pid, place, repeat_flag, handling, kid, history>>

\* Three times kill(), waitpid, play_pid = 0.
Kill ==
    /\ Runs("kill") /\ play_pid > 0
    /\ kid' = [kid EXCEPT ![play_pid] = "none"]
    /\ pending' = (pending \/ (sigchld = "play" /\ play_pid \in Players))
    /\ play_pid' = 0
    /\ GoOn(after) /\ after' = "none"
    /\ UNCHANGED <<born, num_songs, current_dir, repeat_flag, sigchld, handling, history>>

\* The handler has found no song meanwhile: process 0 is the whole group.
KillGroup ==
    /\ Runs("kill") /\ play_pid = 0
    /\ kid' = [k \in Pids |-> "none"]
    /\ main' = "gone"
    /\ UNCHANGED <<after, born, play_pid, place, repeat_flag, sigchld, pending, handling, history>>

\* The handler could not fork: process -1 is every process but this one.
KillAll ==
    /\ Runs("kill") /\ play_pid = Failed
    /\ \E buried \in Buried : kid' = [k \in Pids |-> IF k \in Players THEN "none" ELSE buried[k]]
    /\ play_pid' = 0
    /\ GoOn(after) /\ after' = "none"
    /\ UNCHANGED <<born, num_songs, current_dir, repeat_flag, sigchld, pending, handling, history>>

\* Mutation: without the test of play_pid.
ClickPlayAgain ==
    /\ Runs("idle")
    /\ sigchld' = "play"
    /\ MoveTo(Loaded(current_dir))
    /\ main' = "pick"
    /\ UNCHANGED <<after, born, play_pid, repeat_flag, pending, handling, kid, history>>

\* user_play.
ClickPlay ==
    /\ Runs("idle") /\ play_pid = 0
    /\ sigchld' = "play"
    /\ MoveTo(Loaded(current_dir))
    /\ main' = "pick"
    /\ UNCHANGED <<after, born, play_pid, repeat_flag, pending, handling, kid, history>>

\* dir_up and dir_down.
ClickDir ==
    /\ Runs("idle") /\ play_pid <= 0
    /\ MoveTo(Loaded(PrevDir)) \/ MoveTo(Loaded(NextDir))
    /\ UNCHANGED <<main, after, born, play_pid, repeat_flag, sigchld, pending, handling, kid,
                   history>>

ClickRepeat ==
    /\ Runs("idle")
    /\ repeat_flag' = ~repeat_flag
    /\ UNCHANGED <<main, after, born, play_pid, place, sigchld, pending, handling, kid, history>>

\* The window is closed; a player plays on.
Close ==
    /\ Runs("idle")
    /\ main' = "gone"
    /\ UNCHANGED <<after, born, play_pid, place, repeat_flag, sigchld, pending, handling, kid,
                   history>>

Click   == \/ \E b \in {"stop", "next", "back"} : ClickSilent(b) \/ ClickPlaying(b)
           \/ ClickPlay \/ ClickDir \/ ClickRepeat \/ Close
Work    == Pick \/ Fork \/ Assign \/ Count \/ Install \/ Ignore \/ Kill \/ KillGroup \/ KillAll
Handler == Deliver \/ SignalPlay

Next == Click \/ Work \/ Handler \/ \E k \in Pids : SongEnds(k) \/ Suspend(k)

Spec == Init /\ [][Next]_vars

\* The main loop and the handler run when they can.  Nobody has to click, and
\* no song has to end.
FairSpec == Spec /\ WF_vars(Work) /\ WF_vars(Handler)

----------------------------------------------------------------------------
(* Properties. *)

TypeOK ==
    /\ main \in Places /\ after \in {"none", "stop", "next", "back"}
    /\ born \in Pids \cup {0, Failed} /\ play_pid \in Pids \cup {0, Failed}
    /\ next_song \in Nat /\ num_songs \in Nat /\ current_dir \in 1 .. Len(Songs)
    /\ repeat_flag \in BOOLEAN
    /\ sigchld \in {"default", "ignore", "play"}
    /\ pending \in BOOLEAN /\ handling \in BOOLEAN
    /\ early \in BOOLEAN /\ paused \in BOOLEAN
    /\ kid \in [Pids -> States]

\* is_playing() tells the truth: when the main loop is at rest, the one player
\* there is, is that of play_pid, and there is none when play_pid is 0 or -1;
\* so PLAY starts no second player and STOP leaves silence.  (For players whose
\* signals come after the play_next that has started them.)
PidIsPlayer ==
    ~early /\ main = "idle" /\ ~handling => Players \subseteq {play_pid}

\* The handler does not wait for a song to end, with the window dead until
\* then: the signal that calls it is that of the end of the player it waits
\* for, as long as nobody stops or continues a player.
HandlerReturns == ~early /\ ~paused /\ handling => WaitReturns

\* "will play all the files in each directory sequentially": a song that has
\* ended does not remain the last one; the next one is started, or play_pid
\* tells that nothing plays.
PlaysOn ==
    \A k \in Pids :
        play_pid = k /\ k \notin Players ~>
            play_pid # k \/ k \in Players \/ early \/ main = "gone"
=============================================================================
