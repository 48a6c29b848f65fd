----------------------------- MODULE GameStates -----------------------------
(***************************************************************************)
(* The client from its main menu to the end (hexa/client/game.cpp): a      *)
(* stack of states, the menu, the game and the loading screen over it,     *)
(* each of which says when it is done and what comes next.  A turn of      *)
(* game::run() has the events of the player, a frame, and a transition of  *)
(* the state on top.  The game has a thread of its own for the network.    *)
(*                                                                         *)
(* A frame may throw, in any state, and so may the start of a game.  What  *)
(* game does with the window and with keys that lead nowhere is left out.  *)
(***************************************************************************)
EXTENDS Naturals, Sequences

CONSTANTS
    FadeFrames,  \* frames it takes the loading screen to fade
    MaxThrows    \* bound: exceptions in frames

ASSUME StateConstants == FadeFrames \in Nat \ {0} /\ MaxThrows \in Nat

VARIABLES
    program,         \* "running", "ended", "stuck" in a join, "undefined"
    phase,           \* of a turn of run(): "events", "frame", "transition"
    states,          \* states_, from the bottom
    done,            \* the states whose is_done_ is set
    exit,            \* main_menu::exit_
    loadingShown,    \* main_game::loading_screen_
    waitingForData,  \* main_game::waiting_for_data_
    stopped,         \* main_game::stop_
    input,           \* the line for messages is open
    relative,        \* game::rel_mouse_, the game has the mouse
    fade,            \* frames the loading screen has been fading
    meddled,         \* the player did more than leave before the terrain came
    throws           \* exceptions so far

gameVars == <<loadingShown, waitingForData, stopped, input>>
stateVars == <<program, phase, states, done, exit, gameVars, relative, fade,
               meddled, throws>>

States == {"menu", "game", "loading"}

Events == {"close", "escape", "escape up", "talk", "enter", "play", "exit"}

StatesTypeOK ==
    /\ program \in {"running", "ended", "stuck", "undefined"}
    /\ phase \in {"events", "frame", "transition"}
    /\ states \in Seq(States) /\ done \in SUBSET States
    /\ {exit, loadingShown, waitingForData, stopped, input, relative, meddled}
          \subseteq BOOLEAN
    /\ fade \in Nat /\ throws \in 0 .. MaxThrows

Top == states[Len(states)]

On == {states[i] : i \in DOMAIN states}

StatesInit ==
    /\ program = "running" /\ phase = "events"
    /\ states = <<"menu">> /\ done = {}
    /\ exit = FALSE
    /\ loadingShown = FALSE /\ waitingForData = TRUE /\ stopped = FALSE
    /\ input = FALSE /\ relative = FALSE /\ fade = 0
    /\ meddled = FALSE /\ throws = 0

-----------------------------------------------------------------------------
(***************************************************************************)
(* poll_events(): an event goes down the stack to a state that takes it.   *)
(* The menu and the game take all, the loading screen none.                *)
(***************************************************************************)

\* main_menu::process_event()
MenuEvent(ev) ==
    /\ exit' = (exit \/ ev \in {"close", "exit"})
    /\ done' = IF ev \in {"close", "exit", "play"} THEN done \cup {"menu"}
               ELSE done
    /\ UNCHANGED <<gameVars, relative, meddled>>

\* (Slip: the loading screen keeps events to itself.)
StopsOnTop(ev) ==
    /\ Top = "game"
    /\ ev = "close" \/ (ev = "escape" /\ relative /\ ~input)

\* The events that make the game call stop(), which waits for its thread.
Stops(ev) == ev = "close" \/ (ev = "escape" /\ relative /\ ~input)

\* process_event_captured() and process_event_uncaptured(); a loading screen
\* above has seen the event first.
GameEvent(ev) ==
    /\ stopped' = (stopped \/ Stops(ev))
    /\ done' = done \cup (IF Stops(ev) THEN {"game"} ELSE {})
                    \cup (IF Top = "loading" /\ ev = "escape"
                          THEN {"loading"} ELSE {})
    /\ relative' = IF ev = "escape up" THEN ~relative ELSE relative
    /\ input' = IF ~relative THEN input
                ELSE (input \/ ev = "talk") /\ ev \notin {"escape", "enter"}
    /\ meddled' = \/ meddled
                  \/ /\ ev \in {"escape up", "talk"}
                     /\ Top = "loading" \/ ~loadingShown
    /\ UNCHANGED <<exit, loadingShown, waitingForData>>

Event(ev) ==
    /\ program = "running" /\ phase = "events"
    /\ IF Top = "menu" THEN MenuEvent(ev) ELSE GameEvent(ev)
    /\ UNCHANGED <<program, phase, states, fade, throws>>

EventsDone ==
    /\ program = "running" /\ phase = "events"
    /\ phase' = "frame"
    /\ UNCHANGED <<program, states, done, exit, gameVars, relative, fade,
                   meddled, throws>>

-----------------------------------------------------------------------------
(***************************************************************************)
(* The transition.                                                         *)
(***************************************************************************)

\* expose() of the state that is on top then.
Expose(stack, isDone) ==
    /\ states' = stack
    /\ done' = isDone \ {stack[Len(stack)]}
    /\ relative' = IF stack[Len(stack)] = "menu" THEN FALSE ELSE relative

\* states_.pop_back()
Popped == SubSeq(states, 1, Len(states) - 1)

\* The state on top is taken off.  The destructor of the game waits for its
\* thread, which ends only after stop().
PopState ==
    IF Top = "game" /\ ~stopped
    THEN /\ program' = "stuck"
         /\ UNCHANGED <<states, done, relative>>
    ELSE IF Len(states) = 1
    THEN /\ states' = <<>> /\ done' = {}
         /\ UNCHANGED <<program, relative>>
    ELSE /\ Expose(Popped, done \ {Top})
         /\ UNCHANGED program

\* A new game; its constructor connects and logs in, or throws, and then
\* nothing is left of it.
StartGame ==
    \/ /\ states' = Append(states, "game")
       /\ relative' = TRUE
       /\ loadingShown' = FALSE /\ waitingForData' = TRUE
       /\ stopped' = FALSE /\ input' = FALSE
       /\ meddled' = FALSE
       /\ UNCHANGED done
    \/ /\ Expose(states, done)
       /\ UNCHANGED <<gameVars, meddled>>

\* (Slip: the loading screen takes the place of the game.)
LoadingForGame == Append(Popped, "loading")

\* The game stays below its loading screen.
LoadingOverGame == Append(states, "loading")

MenuNext ==
    /\ Top = "menu"
    /\ IF exit
       THEN /\ program' = "ended"
            /\ states' = <<>> /\ done' = {}
            /\ UNCHANGED <<gameVars, relative, meddled>>
       ELSE StartGame /\ UNCHANGED program
    /\ UNCHANGED fade

GameNext ==
    /\ Top = "game"
    /\ IF loadingShown
       THEN PopState /\ UNCHANGED <<loadingShown, fade>>
       ELSE /\ loadingShown' = TRUE
            /\ Expose(LoadingOverGame, done) /\ fade' = 0
            /\ UNCHANGED program
    /\ UNCHANGED <<waitingForData, stopped, input, meddled>>

LoadingNext ==
    /\ Top = "loading"
    /\ PopState
    /\ UNCHANGED <<gameVars, fade, meddled>>

\* back() of a stack that an exception has emptied has no meaning.
Transition ==
    /\ program = "running" /\ phase = "transition"
    /\ phase' = "events"
    /\ IF states = <<>>
       THEN /\ program' = "undefined"
            /\ UNCHANGED <<states, done, gameVars, relative, fade, meddled>>
       ELSE IF Top \in done THEN MenuNext \/ GameNext \/ LoadingNext
       ELSE UNCHANGED <<program, states, done, gameVars, relative, fade,
                        meddled>>
    /\ UNCHANGED <<exit, throws>>

-----------------------------------------------------------------------------
(***************************************************************************)
(* A frame, of the states from the uppermost that is not transparent.      *)
(***************************************************************************)

\* (Slip: the loading screen has a copy of the flag.)
FadesByCopy(s) == FALSE

\* loading_screen::update() fades once there is data.
Fades(s) == s = "loading" /\ ~waitingForData

\* The states that update() leaves done.
UpdateDone(drawn) ==
    {s \in drawn : \/ s = "game" /\ waitingForData
                   \/ Fades(s) /\ fade + 1 >= FadeFrames}

Updated(drawn) ==
    /\ done' = done \cup UpdateDone(drawn)
    /\ fade' = IF \E s \in drawn : Fades(s) /\ fade < FadeFrames
               THEN fade + 1 ELSE fade

\* The loading screen shows the game below.
Drawn == IF Top = "loading" THEN On \ {"menu"} ELSE {Top}

Frame ==
    /\ program = "running" /\ phase = "frame"
    /\ phase' = "transition"
    /\ Updated(Drawn)
    /\ UNCHANGED <<program, states, exit, gameVars, relative, meddled, throws>>

\* A frame throws, at whatever state: the one on top goes for it, and what
\* the frame has made of it and of the next one is undone.  A menu that is
\* about to leave draws nothing.
Throw ==
    /\ program = "running" /\ phase = "frame" /\ throws < MaxThrows
    /\ ~(Top = "menu" /\ exit)
    /\ throws' = throws + 1
    /\ phase' = "transition"
    /\ PopState
    /\ UNCHANGED <<exit, gameVars, fade, meddled>>

\* bg_thread(): surface_update()
Data ==
    /\ program = "running" /\ "game" \in On /\ ~stopped /\ waitingForData
    /\ waitingForData' = FALSE
    /\ UNCHANGED <<program, phase, states, done, exit, loadingShown, stopped,
                   input, relative, fade, meddled, throws>>

Turn == EventsDone \/ Frame \/ Transition

StatesNext == (\E ev \in Events : Event(ev)) \/ Turn \/ Throw \/ Data

\* The loop of run() turns: a player's events come to an end.
StatesFairness == WF_stateVars(Turn)

StatesSafety == StatesInit /\ [][StatesNext]_stateVars

StatesSpec == StatesSafety /\ StatesFairness

-----------------------------------------------------------------------------
(***************************************************************************)
(* Properties.                                                             *)
(***************************************************************************)

\* A loading screen stands on the game it was made for, whose flag it reads
\* by reference in every frame, and the game on its menu: exceptions and
\* transitions that come together never take the game from below it.
LoadingHasGame ==
    states \in {<<>>, <<"menu">>, <<"menu", "game">>,
                <<"menu", "game", "loading">>}

\* The program gets stuck in ~main_game(), against the assertion of
\* main_game::next_state() that the game was stopped, only after an exception
\* or after the player has opened the line for messages or let go of the
\* mouse: then the escape key ends a loading screen but not the game below.
LeavesStopped ==
    program \in {"stuck", "undefined"} => throws > 0 \/ meddled

\* Once there is terrain, the loading screen goes.
LoadingGoes ==
    ("loading" \in On /\ ~waitingForData)
        ~> ("loading" \notin On \/ program # "running")
=============================================================================
