----------------------------- MODULE Application -----------------------------
(***************************************************************************)
(* The program from its start to its end: run (cmd/agentsusage/main.go)    *)
(* with the configuration it loads or creates (internal/config/config.go), *)
(* the tray icon and its menu (Run and updateMenu in internal/tray/        *)
(* tray.go), and the Controller they share.                                *)
(*                                                                         *)
(* Of the configuration it is told whether the file can be decoded and is  *)
(* valid; whether it starts the server is chosen when it is read.  Of the  *)
(* menu it is told whether its Start/Stop item can be clicked.  What       *)
(* goroutines do after main has returned is not cut off.                   *)
(***************************************************************************)
EXTENDS Controller

VARIABLES
    file,       \* config.json: "missing", "cut", "invalid" or "whole"
    rival,      \* another start of the program is writing it
    settings,   \* what Load has read, or None
    noTray,     \* the flag -no-tray
    step,       \* where run is
    ctxDone,    \* the context of the application is cancelled
    up,         \* the tray icon is there
    enabled     \* the Start/Stop item of its menu can be clicked

launch == <<file, rival, settings, noTray>>
app == <<launch, step, ctxDone, up, enabled>>
appVars == <<vars, app>>

AppInit ==
    /\ Init
    /\ file \in {"missing", "cut", "invalid", "whole"}
    /\ rival = FALSE
    /\ settings = None
    /\ noTray \in BOOLEAN
    /\ step = "load"
    /\ ctxDone = FALSE
    /\ up = FALSE
    /\ enabled = TRUE

-----------------------------------------------------------------------------
(* Load and Save.                                                          *)

\* Faulty: the settings are used as far as they can be decoded.
AcceptsAnyStart(content) == content \in {"cut", "whole"}

\* Unmarshal and Validate
Accepts(content) == content = "whole"

\* run after Load: the server is started, by server.autoStart or -start, or else
\* the tray is needed for that.  What another start still writes is the same.
Launch(content, start) ==
    /\ settings' = content
    /\ rival' = FALSE
    /\ BeginRun
    /\ pc'[Main] = (IF start THEN "start" ELSE "idle")
    /\ step' = IF start THEN "starting" ELSE IF noTray THEN "leave" ELSE "tray"
    /\ up' = (step' = "tray")

\* The file is written in place, by os.WriteFile, if it is missing.
Load ==
    /\ step = "load"
    /\ \/ Accepts(file) /\ \E start \in BOOLEAN : Launch(file, start)
       \/ /\ ~Accepts(file)
          /\ step' = IF file = "missing" THEN "save" ELSE "failed"
          /\ UNCHANGED <<vars, settings, rival, up>>
    /\ UNCHANGED <<file, noTray, ctxDone, enabled>>

Truncate ==
    /\ step = "save"
    /\ file' = "cut"
    /\ step' = "write"
    /\ UNCHANGED <<vars, rival, settings, noTray, ctxDone, up, enabled>>

\* Default is with autoStart.
Write ==
    /\ step = "write"
    /\ file' = "whole"
    /\ Launch("whole", TRUE)
    /\ UNCHANGED <<noTray, ctxDone, enabled>>

\* A signal before main asks for it, or the power is cut.
Killed ==
    /\ step \in {"load", "save", "write"}
    /\ step' = "failed"
    /\ UNCHANGED <<vars, launch, ctxDone, up, enabled>>

Relaunch ==
    /\ step = "failed"
    /\ step' = "load"
    /\ noTray' \in BOOLEAN
    /\ UNCHANGED <<vars, file, rival, settings, ctxDone, up, enabled>>

\* Another start of the program finds no file either and is as far as Truncate,
\* or the user edits or removes the file.
ChangeFile ==
    /\ step \in {"load", "save", "write", "failed"}
    /\ \/ ~rival /\ file = "missing" /\ rival' = TRUE /\ file' = "cut"
       \/ rival /\ rival' = FALSE /\ file' = "whole"
       \/ /\ step = "failed" /\ ~rival
          /\ UNCHANGED rival
          /\ file' \in {"missing", "whole"}
    /\ UNCHANGED <<vars, settings, noTray, step, ctxDone, up, enabled>>

-----------------------------------------------------------------------------
(* run with the controller, and the tray.                                  *)

\* controller.Start: without a tray its error ends the program.
MainStarts ==
    /\ step = "starting"
    /\ CallerStep(Main)
    /\ step' = IF pc'[Main] # "idle" THEN "starting"
               ELSE IF ~noTray THEN "tray"
               ELSE IF state' = "running" THEN "headless" ELSE "leave"
    /\ up' = (step' = "tray")
    /\ UNCHANGED <<launch, ctxDone, enabled>>

\* A signal, or Monitor.Run has returned with an error.
Interrupt ==
    /\ step \in {"starting", "tray", "headless"}
    /\ ctxDone' = TRUE
    /\ UNCHANGED <<vars, launch, step, up, enabled>>

\* Quit: stop, then remove.
QuitItem ==
    /\ up
    /\ ctxDone' = TRUE
    /\ up' = FALSE
    /\ UNCHANGED <<vars, launch, step, enabled>>

\* Faulty: the item is disabled while the server starts or stops, and left so.
UpdateMenuDisables ==
    /\ up
    /\ enabled' = (enabled /\ state \in {"running", "stopped"})
    /\ UNCHANGED <<vars, launch, step, ctxDone, up>>

\* updateMenu, every second and before the context is looked at.
UpdateMenu ==
    /\ up
    /\ enabled' = (state \in {"running", "stopped"})
    /\ UNCHANGED <<vars, launch, step, ctxDone, up>>

\* Faulty: only Quit takes the icon away.
TrayIgnoresContext == FALSE /\ UNCHANGED appVars

\* The goroutine of Run has seen ctx.Done.
RemoveIcon ==
    /\ up /\ ctxDone
    /\ up' = FALSE
    /\ UNCHANGED <<vars, launch, step, ctxDone, enabled>>

\* native.Run returns, or the headless run has waited for the context.
RunReturns ==
    /\ \/ step = "tray" /\ ~up
       \/ step = "headless" /\ ctxDone
    /\ step' = "leave"
    /\ UNCHANGED <<vars, launch, ctxDone, up, enabled>>

\* The deferred StopWithTimeout.
DeferredStop ==
    /\ step = "leave"
    /\ \/ Quit
       \/ At(Main, "stop") /\ CallerStep(Main)
       \/ At(Main, "wait") /\ CallerStep(Main)
    /\ UNCHANGED app

\* What the item does depends on the state now, not on its label.
Click(c) ==
    /\ up /\ enabled
    /\ ReadStatus(c)
    /\ UNCHANGED app

Goroutines ==
    \/ \E c \in Clicks : CallerStep(c)
    \/ \E i \in Instances :
          InstanceStep(i) \/ AcceptFails(i) \/ RequestArrives(i) \/ RequestEnds(i)
    \/ OtherProcess

AppNext ==
    \/ Load \/ Truncate \/ Write \/ Killed \/ Relaunch \/ ChangeFile
    \/ MainStarts \/ Interrupt \/ QuitItem \/ UpdateMenu \/ RemoveIcon
    \/ RunReturns \/ DeferredStop
    \/ \E c \in Clicks : Click(c)
    \/ Goroutines /\ UNCHANGED app

AppSpec == AppInit /\ [][AppNext]_appVars

\* Goroutines that can run do, those of the controller as in Controller.
FairAppSpec ==
    /\ AppSpec
    /\ WF_appVars(MainStarts)
    /\ WF_appVars(UpdateMenu)
    /\ WF_appVars(RemoveIcon)
    /\ WF_appVars(RunReturns)
    /\ WF_appVars(DeferredStop)
    /\ \A c \in Clicks : WF_appVars(CallerStep(c) /\ UNCHANGED app)
    /\ \A i \in Instances : WF_appVars(InstanceStep(i) /\ UNCHANGED app)

-----------------------------------------------------------------------------
AppTypeOK ==
    /\ TypeOK
    /\ file \in {"missing", "cut", "invalid", "whole"}
    /\ settings \in {None, "whole"}
    /\ rival \in BOOLEAN /\ noTray \in BOOLEAN
    /\ ctxDone \in BOOLEAN /\ up \in BOOLEAN /\ enabled \in BOOLEAN
    /\ step \in {"load", "save", "write", "failed", "starting", "tray", "headless", "leave"}
    /\ up => step = "tray"

\* Nothing is served and no icon shown under settings that were not whole when
\* they were read, though the file is written in place, by several starts at
\* once, and a start may be killed in the middle.
RunsOnWholeSettings ==
    up \/ port \in Instances => settings = "whole"

\* "quit cleanly": once a signal, the menu or the monitor has cancelled the
\* context, the program ends, with or without a tray, whatever the clicks that
\* are still under way and the requests that are still being answered.
EndsWhenTold == ctxDone ~> At(Main, "exit")

\* The server can be started and stopped again from the menu once it has
\* settled, though the item was drawn in the middle of a start or a stop.
MenuIsUsable == <>[](up /\ state \in {"running", "stopped"}) => <>[]enabled
=============================================================================
