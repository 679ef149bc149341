----------------------------- MODULE Application -----------------------------
(***************************************************************************)
(* The application: Core with its SubsystemManager, the set-up in main,    *)
(* the jobs of phase INIT that enable rendering and install the tiled      *)
(* renderer, the render job of phase MAIN, and the end: main leaves the    *)
(* loop, and the destructors of Core and SubsystemManager wait until       *)
(* nobody borrows what they own (Ownership).  The phases of the job system *)
(* are taken as JobManager proves them.                                    *)
(***************************************************************************)
EXTENDS FiniteSets

CONSTANTS
    Types,        \* subsystem types Core registers, besides the renderer
    WithJob,      \* --enable-render-job
    WithPlugin    \* --plugins with the tiled renderer in the directory

ConstantsOK == {"IRenderer", "none"} \cap Types = {}

VARIABLES
    subsystems,   \* m_subsystems: type -> its owner, or "none"
    step,         \* where the main thread is
    initJobs,     \* kicked jobs of phase INIT
    swap,         \* the plugin has the old renderer and has not put a new one
    render,       \* the render job
    listener,     \* the plugin's listener exists; it borrows the registry
    shouldEnd,    \* m_should_shutdown
    freeing,      \* the subsystem whose owner is being destroyed
    said          \* history: what Render returned to the last render job

others == <<shouldEnd, freeing>>
vars == <<subsystems, step, initJobs, swap, render, listener, others, said>>

Renderer == "IRenderer"
NoOwner == "none"

Init ==
    /\ subsystems = [t \in Types \cup {Renderer} |-> NoOwner]
    /\ step = "construct"
    /\ initJobs = {}
    /\ swap = NoOwner
    /\ render = "none"
    /\ listener = FALSE
    /\ shouldEnd = FALSE
    /\ freeing = NoOwner
    /\ said = "continue"

Provides(type) == subsystems[type] # NoOwner
\* Borrower instances of the SubsystemManager that queued jobs have captured.
Borrowing == {j \in initJobs : j = "enable"}
             \cup (IF render = "queued" THEN {"render"} ELSE {})

-----------------------------------------------------------------------------
(* SubsystemManager: one type at a time, under its lock *)

AddOrReplace(type, owner) == subsystems' = [subsystems EXCEPT ![type] = owner]
Remove(type) == Provides(type) /\ subsystems' = [subsystems EXCEPT ![type] = NoOwner]

-----------------------------------------------------------------------------
(* The main thread *)

\* The constructor of Core: one subsystem after the other.
Construct(type) ==
    /\ step = "construct" /\ ~Provides(type)
    /\ AddOrReplace(type, "core")
    /\ UNCHANGED <<step, initJobs, swap, render, listener, others, said>>

SetRenderer ==
    /\ step = "construct" /\ \A t \in Types : Provides(t)
    /\ AddOrReplace(Renderer, "base")
    /\ step' = "enable"
    /\ UNCHANGED <<initJobs, swap, render, listener, others, said>>

EnableRenderingJob ==
    /\ step = "enable"
    /\ initJobs' = IF WithJob THEN initJobs \cup {"enable"} ELSE initJobs
    /\ step' = "plugins"
    /\ UNCHANGED <<subsystems, swap, render, listener, others, said>>

LoadPlugins ==
    /\ step = "plugins"
    /\ initJobs' = IF WithPlugin THEN initJobs \cup {"plugin"} ELSE initJobs
    /\ step' = "check"
    /\ UNCHANGED <<subsystems, swap, render, listener, others, said>>

\* The loop of main.
BeginCycle ==
    /\ step = "check" /\ ~shouldEnd
    /\ step' = "INIT"
    /\ UNCHANGED <<subsystems, initJobs, swap, render, listener, others, said>>

\* Mutant: the phase ends before its jobs.
EndInitEarly ==
    /\ step = "INIT"
    /\ step' = "MAIN"
    /\ UNCHANGED <<subsystems, initJobs, swap, render, listener, others, said>>

\* InvokeCycleAndWait goes on to the next phase when the jobs have ended.
EndInit ==
    /\ step = "INIT" /\ initJobs = {}
    /\ step' = "MAIN"
    /\ UNCHANGED <<subsystems, initJobs, swap, render, listener, others, said>>

EndCycle ==
    /\ step = "MAIN"
    /\ step' = "check"
    /\ UNCHANGED <<subsystems, initJobs, swap, render, listener, others, said>>

Shutdown ==
    /\ step \in {"check", "INIT", "MAIN"}
    /\ shouldEnd' = TRUE
    /\ UNCHANGED <<subsystems, step, initJobs, swap, render, listener, freeing,
                   said>>

LeaveLoop ==
    /\ step = "check" /\ shouldEnd
    /\ step' = "destroy"
    /\ UNCHANGED <<subsystems, initJobs, swap, render, listener, others, said>>

\* ~Owner of the SubsystemManager waits for the borrowers.
DestroyCore ==
    /\ step = "destroy" /\ Borrowing = {}
    /\ step' = "members"
    /\ UNCHANGED <<subsystems, initJobs, swap, render, listener, others, said>>

\* The map destroys its owners one by one, in no particular order...
NextSubsystem(type) ==
    /\ step = "members" /\ freeing = NoOwner /\ Provides(type)
    /\ freeing' = type
    /\ UNCHANGED <<subsystems, step, initJobs, swap, render, listener, shouldEnd,
                   said>>

\* ... and each of them waits for its borrowers.  The plugin, and with it the
\* listener, goes with the plugin manager.
DestroySubsystem(type) ==
    /\ freeing = type
    /\ type = "IServiceRegistry" => ~listener
    /\ Remove(type)
    /\ freeing' = NoOwner
    /\ listener' = (listener /\ type # "IPluginManager")
    /\ UNCHANGED <<step, initJobs, swap, render, shouldEnd, said>>

Leave ==
    /\ step = "members" /\ \A t \in DOMAIN subsystems : ~Provides(t)
    /\ step' = "gone"
    /\ UNCHANGED <<subsystems, initJobs, swap, render, listener, others, said>>

-----------------------------------------------------------------------------
(* Jobs *)

\* The job of EnableRenderingJob: a render job that is queued is detached.
Enable ==
    /\ step = "INIT" /\ "enable" \in initJobs
    /\ initJobs' = initJobs \ {"enable"}
    /\ render' = "queued"
    /\ UNCHANGED <<subsystems, step, swap, listener, others, said>>

\* Init of the plugin takes the renderer out of the SubsystemManager...
TakeRenderer ==
    /\ step = "INIT" /\ "plugin" \in initJobs /\ swap = NoOwner
    /\ swap' = subsystems[Renderer]
    /\ Remove(Renderer)
    /\ UNCHANGED <<step, initJobs, render, listener, others, said>>

\* ... wraps it and puts it back; the listener it registers captures a
\* Borrower of the service registry.
PutTiledRenderer ==
    /\ step = "INIT" /\ swap # NoOwner
    /\ AddOrReplace(Renderer, "tiled")
    /\ swap' = NoOwner
    /\ initJobs' = initJobs \ {"plugin"}
    /\ listener' = TRUE
    /\ UNCHANGED <<step, render, others, said>>

\* Render says whether to go on: an onscreen renderer does not after its
\* window has been closed.
RenderFrame ==
    /\ step = "MAIN" /\ render = "queued"
    /\ IF Provides(Renderer)
       THEN \/ said' = "continue" /\ UNCHANGED render
            \/ said' = "stop" /\ render' = "done"
       ELSE said' = said /\ render' = "done"
    /\ UNCHANGED <<subsystems, step, initJobs, swap, listener, others>>

Main ==
    \/ \E t \in Types : Construct(t)
    \/ SetRenderer \/ EnableRenderingJob \/ LoadPlugins
    \/ BeginCycle \/ EndInit \/ EndCycle \/ LeaveLoop
    \/ DestroyCore \/ Leave
    \/ \E t \in Types \cup {Renderer} : NextSubsystem(t) \/ DestroySubsystem(t)

Job == Enable \/ TakeRenderer \/ PutTiledRenderer \/ RenderFrame

Next == Main \/ Job \/ Shutdown

Spec == Init /\ [][Next]_vars

\* The main thread and the jobs run.
FairSpec == Spec /\ WF_vars(Main) /\ WF_vars(Job)

-----------------------------------------------------------------------------
(* Properties *)

\* Every variable has its type.
TypeOK ==
    /\ subsystems \in [Types \cup {Renderer} -> {NoOwner, "core", "base", "tiled"}]
    /\ step \in {"construct", "enable", "plugins", "check", "INIT", "MAIN",
                 "destroy", "members", "gone"}
    /\ initJobs \in SUBSET {"enable", "plugin"}
    /\ swap \in {NoOwner, "base", "tiled"}
    /\ render \in {"none", "queued", "done"}
    /\ freeing \in Types \cup {Renderer, NoOwner}
    /\ listener \in BOOLEAN /\ shouldEnd \in BOOLEAN
    /\ said \in {"continue", "stop"}

\* Rendering ends only because the renderer says so: the render job always
\* finds a renderer, although the plugin takes it out and puts another in.
RenderingSurvivesSwap == render = "done" => said = "stop"

\* Core.h, Shutdown: the core system shuts down on the next occasion.
ShutdownReturns == step = "destroy" ~> step = "gone"

-----------------------------------------------------------------------------
(* The inductive invariant *)

\* There is a renderer from the end of the constructor to the destructor,
\* except while the plugin has it, which it does within one job of INIT.
RendererIsSomewhere ==
    /\ subsystems[Renderer] # "core"
    /\ step \notin {"construct", "members", "gone"} =>
           Provides(Renderer) \/ swap # NoOwner
    /\ swap # NoOwner => step = "INIT" /\ "plugin" \in initJobs
    /\ step = "MAIN" => initJobs = {}
    /\ freeing # NoOwner => step \in {"members", "gone"}

ApplicationInv == TypeOK /\ RendererIsSomewhere /\ RenderingSurvivesSwap
=============================================================================
