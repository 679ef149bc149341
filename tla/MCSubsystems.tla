---------------------------- MODULE MCSubsystems ----------------------------
(***************************************************************************)
(* Instances for TLC of the subsystems above the jobs: events and          *)
(* properties, resources, plugins, rendering, the tiled renderer, messages *)
(* and the application.  Each models what it uses of another one, so       *)
(* nothing is learned from their interleavings: the first state chooses    *)
(* the component that moves, and the others rest.                          *)
(***************************************************************************)
EXTENDS Naturals, Sequences

CONSTANTS
    Listeners, Paths, MaxChanges,                     \* of Events
    Loaders, FileLoader, Requests, Uri, Pool,         \* of Resources
    Plugins, Name, Listed, Broken, Absent, Null,      \* of Plugins
    Calls, RequestSize, RequestCamera, Malformed, Invalid, DefaultSize,
      NoCamera, UseDepth, Shared,                     \* of Rendering
    Widths, Registrations, InitialServices, MaxFrames, MaxLost, PluginInit,
      Nobody,                                         \* of Tiles
    Names, Texts, Id, Service, Statuses, RenderRequests, Precision, \* of Messages
    Types, WithJob, WithPlugin                        \* of Application

VARIABLES
    part,   \* the component that moves
    \* Events
    broker, subscribers, live, values, setting, removing, jobs, overrun,
      changes, seen, since,
    \* Resources
    registered, queue, terminate, rpc, loading, promise, mpc,
    \* Plugins
    phase, installs, uninstalls, listing, managed, plugin, manager, crashed,
    \* Rendering
    size, camera, views, capture, copied, image, inside, serviceLock,
      available, spc, response, jpc,
    \* Tiles
    width, services, count, tiles, buffers, tiling, drawn, lock, tlPc,
      tlJob, frames, lost, epc, tlSeen,
    \* Messages
    stage, request, asked, wire, received, msResponse, result,
    \* Application
    subsystems, step, initJobs, swap, render, listener, shouldEnd, freeing,
      said

evVars == <<broker, subscribers, live, values, setting, removing, jobs,
      overrun, changes, seen, since>>
rsVars == <<registered, queue, terminate, rpc, loading, promise, mpc>>
plVars == <<phase, installs, uninstalls, listing, managed, plugin, manager,
      crashed>>
rdVars == <<size, camera, views, capture, copied, image, inside,
      serviceLock, available, spc, response, jpc>>
tlVars == <<width, services, count, tiles, buffers, tiling, drawn, lock,
      tlPc, tlJob, frames, lost, epc, tlSeen>>
msVars == <<stage, request, asked, wire, received, msResponse, result>>
apVars == <<subsystems, step, initJobs, swap, render, listener, shouldEnd,
      freeing, said>>
vars == <<part, evVars, rsVars, plVars, rdVars, tlVars, msVars, apVars>>

-----------------------------------------------------------------------------
(* The instances *)

\* Events: a property, and one below it.
PathsOfTwo == {<<"a">>, <<"a", "b">>}

\* Resources: with a loader, and without one, in a directory or not.
SomeUris == << [scheme |-> "file", dir |-> "data"],
               [scheme |-> "", dir |-> "data"], [scheme |-> "", dir |-> ""] >>

\* Plugins: two objects of one name, and one of another; one listed library
\* is broken.
TwoNames == [p \in {"p1", "p2", "p3"} |-> IF p = "p3" THEN "m" ELSE "n"]
OneIsBroken == <<"p1", Broken, "p3">>

\* Rendering: two extents with and without a camera, and two bad requests.
Extents == [c \in Calls |-> IF c \in {"r1", "r4"} THEN "small" ELSE "large"]
Cameras == [c \in Calls |-> IF c = "r3" THEN NoCamera ELSE c]

\* Messages: render requests with numbers that are printed exactly, or not.
Extend == [n \in {"width", "height"} |-> IF n = "width" THEN 640 ELSE 480]
Planes == {"perspective-near-plane", "perspective-far-plane",
           "perspective-fov"}
Projection(near) == [n \in Planes |->
                        IF n = "perspective-near-plane" THEN near ELSE 1017]
View == [n \in {"view-matrix"} |-> 1234]
NoView == [n \in {} |-> 0]
Renders == [extend : {Extend}, projection : {Projection(4), Projection(16)},
            view : {View, NoView}]

Ev == INSTANCE Events
Rs == INSTANCE Resources
Pl == INSTANCE Plugins
Rd == INSTANCE Rendering
Tl == INSTANCE Tiles WITH Events <- Registrations,
          rpc <- tlPc, job <- tlJob, seen <- tlSeen
Ms == INSTANCE Messages WITH response <- msResponse
Ap == INSTANCE Application

\* The theorems assume this of the constants.
ASSUME SubsystemsAssumption ==
    /\ Ev!ConstantsOK /\ Rs!ConstantsOK /\ Pl!ConstantsOK /\ Rd!ConstantsOK
    /\ Tl!ConstantsOK /\ Ap!ConstantsOK

-----------------------------------------------------------------------------
(* The specification *)

\* A component that rests is in one of its initial states.
Init ==
    /\ part \in {"events", "resources", "plugins", "rendering", "tiles",
      "messages", "application"}
    /\ Ev!Init
    /\ Rs!Init
    /\ Pl!Init
    /\ Rd!Init
    /\ Tl!Init
    /\ Ms!Init
    /\ Ap!Init
    /\ part # "tiles" => width = CHOOSE w \in Widths : TRUE
    /\ part # "messages" => asked = Ms!None /\ request.parameters = NoView

EventsMoves ==
    /\ part = "events"
    /\ Ev!Next
    /\ UNCHANGED <<part, rsVars, plVars, rdVars, tlVars, msVars, apVars>>

ResourcesMoves ==
    /\ part = "resources"
    /\ Rs!Next
    /\ UNCHANGED <<part, evVars, plVars, rdVars, tlVars, msVars, apVars>>

PluginsMoves ==
    /\ part = "plugins"
    /\ Pl!Next
    /\ UNCHANGED <<part, evVars, rsVars, rdVars, tlVars, msVars, apVars>>

RenderingMoves ==
    /\ part = "rendering"
    /\ Rd!Next
    /\ UNCHANGED <<part, evVars, rsVars, plVars, tlVars, msVars, apVars>>

TilesMoves ==
    /\ part = "tiles"
    /\ Tl!Next
    /\ UNCHANGED <<part, evVars, rsVars, plVars, rdVars, msVars, apVars>>

MessagesMoves ==
    /\ part = "messages"
    /\ Ms!Next
    /\ UNCHANGED <<part, evVars, rsVars, plVars, rdVars, tlVars, apVars>>

ApplicationMoves ==
    /\ part = "application"
    /\ Ap!Next
    /\ UNCHANGED <<part, evVars, rsVars, plVars, rdVars, tlVars, msVars>>

Next ==
    \/ EventsMoves
    \/ ResourcesMoves
    \/ PluginsMoves
    \/ RenderingMoves
    \/ TilesMoves
    \/ MessagesMoves
    \/ ApplicationMoves

Spec == Init /\ [][Next]_vars

-----------------------------------------------------------------------------
(* The properties, each stated in the module of its component *)

\* Every variable of the subsystems has a value of its type.
TypesOK ==
    /\ Ev!TypeOK /\ Rs!TypeOK /\ Pl!TypeOK /\ Rd!TypeOK /\ Tl!TypeOK
    /\ Ms!TypeOK /\ Ap!TypeOK

\* A listener of a property has been called after every change of it or below
\* it, once the jobs that notify have run (PropertyProvider, event broker).
NoChangeIsMissed == Ev!NoChangeIsMissed

\* A loading thread sleeps only while others will take all that is queued.
NoLoadIsForgotten == Rs!NoLoadIsForgotten

\* The plugins that are managed are those that run.
ManagedIsRunning == Pl!ManagedIsRunning

\* The image that a render service answers has the extent and the camera that
\* were asked for, whatever other calls it serves.
AnswerIsWhatWasAsked == Rd!AnswerIsWhatWasAsked

\* An image is written into a tile that has its extent.
ImageFitsItsTile == Tl!ImageFitsItsTile

\* A request arrives as it was made, and so does its response.
CallSurvivesTransport == Ms!CallSurvivesTransport

\* Each frame finds a renderer although the plugin replaces it meanwhile.
RenderingSurvivesSwap == Ap!RenderingSurvivesSwap

-----------------------------------------------------------------------------
(* The inductive invariant *)

SubsystemsInv ==
    /\ Ev!EventsInv /\ Rs!ResourcesInv /\ Pl!PluginsInv /\ Rd!RenderingInv
    /\ Tl!TilesInv /\ Ms!MessagesInv /\ Ap!ApplicationInv

-----------------------------------------------------------------------------
(* What the code does not guarantee: in place of the properties in the cfg,  *)
(* these have counterexamples.                                               *)

\* The tiles of the surface are as many as there are render services.
EveryServiceGetsATile == Tl!EveryServiceGetsATile

\* The tiles cover the surface that is drawn.
TilesCoverTheSurface == Tl!TilesCoverTheSurface

\* The destructor of the resource manager joins its threads, if they run.
FairPool ==
    /\ Spec
    /\ WF_rsVars(part = "resources" /\ Rs!Destructor)
    /\ \A w \in Pool : WF_rsVars(part = "resources" /\ Rs!Worker(w))
PoolIsJoined == Rs!DestructorReturns

\* The meta data of a message is that of the one it was made from.
NothingIsDropped == Ms!NothingIsDropped

=============================================================================
