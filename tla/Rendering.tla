----------------------------- MODULE Rendering -----------------------------
(***************************************************************************)
(* The render service and the offscreen renderer it uses.  Calls of the    *)
(* service run in jobs on several threads; the job that renders            *)
(* continuously is another user if it was given the same renderer.         *)
(* A method of the renderer is two steps, so that two threads can be       *)
(* inside of it; Vulkan and the scene graph are abstracted to which set of *)
(* images (a generation) the render pass draws into, the capture commands  *)
(* copy from, and GetResult reads.                                         *)
(***************************************************************************)
EXTENDS Naturals, FiniteSets

CONSTANTS
    Calls,         \* requests of the service
    RequestSize,   \* call -> the extent it asks for
    RequestCamera, \* call -> projection and view, or NoCamera
    Malformed,     \* calls without an extent
    Invalid,       \* calls whose perspective is incomplete
    DefaultSize,
    NoCamera,
    UseDepth,      \* the renderer has a depth buffer
    Shared         \* the continuous rendering job has the same renderer

ConstantsOK ==
    /\ NoCamera \notin Calls
    /\ UseDepth \in BOOLEAN /\ Shared \in BOOLEAN

VARIABLES
    \* OffscreenRenderer
    size,          \* m_size
    camera,        \* m_camera
    views,         \* attachment -> generation the framebuffer consists of
    capture,       \* attachment -> generation the command graph captures
    copied,        \* attachment -> generation of the buffer GetResult maps
    image,         \* what the captured buffers show
    inside,        \* threads inside a method of the renderer
    \* RenderService
    serviceLock,   \* owner of m_service_mutex, or NoCamera
    available,     \* the owners of renderer and subsystems
    spc,           \* where a call is
    response,      \* what its promise was set to
    \* the continuous rendering job
    jpc

rendererVars == <<size, camera, views, capture, copied, image>>
vars == <<rendererVars, inside, serviceLock, available, spc, response, jpc>>

Attachments == IF UseDepth THEN {"color", "depth"} ELSE {"color"}
\* A method that is being executed.
Method == {"resize", "view", "render", "result"}
\* The call has a Borrower of the renderer.
Borrowing == Method \cup {"sized", "viewed", "rendered"}
RenderJob == "render-job"

Picture(s, c, g) == [size |-> s, camera |-> c, of |-> g]

\* SetupRenderGraph and SetupCommandGraph, and the constructor's Render.
Init ==
    /\ size = DefaultSize
    /\ camera = NoCamera
    /\ views = [a \in Attachments |-> 0]
    /\ capture = views /\ copied = views
    /\ image = Picture(size, camera, views)
    /\ inside = {}
    /\ serviceLock = NoCamera
    /\ available = {"renderer", "subsystems"}
    /\ spc = [c \in Calls |-> "new"]
    /\ response = [c \in Calls |-> [status |-> "none"]]
    /\ jpc = "idle"

-----------------------------------------------------------------------------
(* OffscreenRenderer *)

\* The commands that copy an image of a framebuffer into a buffer the host
\* can map: both are created together, for the images they are given.
ColorCapture(images) == [source |-> images["color"], buffer |-> images["color"]]
DepthCapture(images) == [source |-> images["depth"], buffer |-> images["depth"]]
Capture(a, images) == IF a = "color" THEN ColorCapture(images) ELSE DepthCapture(images)

\* Mutant: the capture commands of the replaced images stay in the graph.
CapturesKept ==
    /\ views' = [a \in Attachments |-> views[a] + 1]
    /\ copied' = [a \in Attachments |-> Capture(a, views').buffer]
    /\ UNCHANGED capture

\* Every size has new images: framebuffer, captures and their targets are
\* replaced, and the capture commands in the command graph as well.
ReplaceFramebufferAndCaptures ==
    /\ views' = [a \in Attachments |-> views[a] + 1]
    /\ copied' = [a \in Attachments |-> Capture(a, views').buffer]
    /\ capture' = [a \in Attachments |-> Capture(a, views').source]

Resize(s) ==
    /\ size' = s
    /\ ReplaceFramebufferAndCaptures
    /\ UNCHANGED <<camera, image>>

SetCamera(c) == camera' = c /\ UNCHANGED <<size, views, capture, copied, image>>

\* The frame is drawn into the framebuffer; the captures of these images
\* are copied into their buffers.
RenderFrame ==
    /\ image' = IF capture = views THEN Picture(size, camera, views) ELSE image
    /\ UNCHANGED <<size, camera, views, capture, copied>>

\* The buffer is read in rows of the current size.
GetResult == Picture(IF copied = image.of THEN image.size ELSE "garbage",
                     image.camera, copied)

-----------------------------------------------------------------------------
(* RenderService *)

Goto(c, label) == spc' = [spc EXCEPT ![c] = label]

Answer(c, r) ==
    /\ response' = [response EXCEPT ![c] = r]
    /\ serviceLock' = NoCamera
    /\ Goto(c, "done")

\* Mutant: the mutex of the service is not acquired.
LockIgnored(c) == serviceLock' = c
Lock(c) == serviceLock = NoCamera /\ serviceLock' = c

RenderBegin(c) ==
    /\ spc[c] = "new"
    /\ Lock(c)
    /\ Goto(c, "locked")
    /\ UNCHANGED <<rendererVars, inside, available, response, jpc>>

\* The value of a missing extent throws; without a renderer the call fails.
GetRenderer(c) ==
    /\ spc[c] = "locked"
    /\ \/ /\ c \in Malformed
          /\ Answer(c, [status |-> "thrown"])
       \/ /\ c \notin Malformed /\ "renderer" \notin available
          /\ Answer(c, [status |-> "INTERNAL_ERROR"])
       \/ /\ c \notin Malformed /\ "renderer" \in available
          /\ Goto(c, IF size # RequestSize[c] THEN "resize" ELSE "sized")
          /\ UNCHANGED <<serviceLock, response>>
    /\ inside' = IF spc'[c] = "resize" THEN inside \cup {c} ELSE inside
    /\ UNCHANGED <<rendererVars, available, jpc>>

ResizeReturns(c) ==
    /\ spc[c] = "resize"
    /\ Resize(RequestSize[c])
    /\ inside' = inside \ {c}
    /\ Goto(c, "sized")
    /\ UNCHANGED <<serviceLock, available, response, jpc>>

\* Projection, if the parameters are complete, and view of the camera.
SetCameraBegin(c) ==
    /\ spc[c] = "sized"
    /\ \/ /\ c \in Invalid
          /\ Answer(c, [status |-> "PARAMETER_ERROR"])
          /\ UNCHANGED inside
       \/ /\ c \notin Invalid /\ RequestCamera[c] = NoCamera
          /\ Goto(c, "viewed")
          /\ UNCHANGED <<inside, serviceLock, response>>
       \/ /\ c \notin Invalid /\ RequestCamera[c] # NoCamera
          /\ Goto(c, "view")
          /\ inside' = inside \cup {c}
          /\ UNCHANGED <<serviceLock, response>>
    /\ UNCHANGED <<rendererVars, available, jpc>>

SetCameraReturns(c) ==
    /\ spc[c] = "view"
    /\ SetCamera(RequestCamera[c])
    /\ inside' = inside \ {c}
    /\ Goto(c, "viewed")
    /\ UNCHANGED <<serviceLock, available, response, jpc>>

DrawBegin(c) ==
    /\ spc[c] = "viewed"
    /\ inside' = inside \cup {c}
    /\ Goto(c, "render")
    /\ UNCHANGED <<rendererVars, serviceLock, available, response, jpc>>

DrawReturns(c) ==
    /\ spc[c] = "render"
    /\ RenderFrame
    /\ inside' = inside \ {c}
    /\ Goto(c, "rendered")
    /\ UNCHANGED <<serviceLock, available, response, jpc>>

ResultBegin(c) ==
    /\ spc[c] = "rendered"
    /\ inside' = inside \cup {c}
    /\ Goto(c, "result")
    /\ UNCHANGED <<rendererVars, serviceLock, available, response, jpc>>

\* The result is encoded by a subsystem.
ResultReturns(c) ==
    /\ spc[c] = "result"
    /\ inside' = inside \ {c}
    /\ Answer(c, IF "subsystems" \in available
                 THEN [status |-> "OK", result |-> GetResult]
                 ELSE [status |-> "INTERNAL_ERROR"])
    /\ UNCHANGED <<rendererVars, available, jpc>>

\* Owners of the renderer and of the subsystems are destroyed: that of the
\* renderer waits for calls that have borrowed it.
OwnerDestroyed(o) ==
    /\ o \in available
    /\ o = "renderer" => ~\E c \in Calls : spc[c] \in Borrowing
    /\ available' = available \ {o}
    /\ UNCHANGED <<rendererVars, inside, serviceLock, spc, response, jpc>>

-----------------------------------------------------------------------------
(* The continuous rendering job, with this renderer or with another *)

JobRenders ==
    /\ jpc = "idle" /\ "renderer" \in available
    /\ jpc' = "render"
    /\ inside' = IF Shared THEN inside \cup {RenderJob} ELSE inside
    /\ UNCHANGED <<rendererVars, serviceLock, available, spc, response>>

JobRendered ==
    /\ jpc = "render"
    /\ IF Shared THEN RenderFrame ELSE UNCHANGED rendererVars
    /\ jpc' = "idle"
    /\ inside' = inside \ {RenderJob}
    /\ UNCHANGED <<serviceLock, available, spc, response>>

Call(c) == RenderBegin(c) \/ GetRenderer(c) \/ ResizeReturns(c)
           \/ SetCameraBegin(c) \/ SetCameraReturns(c) \/ DrawBegin(c)
           \/ DrawReturns(c) \/ ResultBegin(c) \/ ResultReturns(c)

RenderLoop == JobRenders \/ JobRendered

Next == (\E c \in Calls : Call(c)) \/ (\E o \in available : OwnerDestroyed(o))
        \/ RenderLoop

Spec == Init /\ [][Next]_vars

-----------------------------------------------------------------------------
(* Properties *)

\* Every variable has its type.
TypeOK ==
    /\ {views, capture, copied} \subseteq [Attachments -> Nat]
    /\ size \in {RequestSize[c] : c \in Calls} \cup {DefaultSize}
    /\ camera \in {RequestCamera[c] : c \in Calls} \cup {NoCamera}
    /\ inside \subseteq Calls \cup {RenderJob}
    /\ serviceLock \in Calls \cup {NoCamera}
    /\ available \subseteq {"renderer", "subsystems"}
    /\ spc \in [Calls -> Borrowing \cup {"new", "locked", "done"}]
    /\ jpc \in {"idle", "render"}

\* A successful answer shows what was asked for: the extent and the camera
\* of this request, drawn after the last resize, although all requests
\* share one renderer.
AnswerIsWhatWasAsked ==
    \A c \in Calls : response[c].status = "OK" =>
        /\ response[c].result.size = RequestSize[c]
        /\ RequestCamera[c] # NoCamera =>
               response[c].result.camera = RequestCamera[c]

\* RenderService.cpp: one render process at a time uses the renderer.
RendererIsExclusive == Cardinality(inside) <= 1

-----------------------------------------------------------------------------
(* The inductive invariant *)

\* The mutex of the service is held from the first step of a call to its last.
CallHasMutex == \A c \in Calls : spc[c] \notin {"new", "done"} <=> serviceLock = c

\* What is captured and read is what is drawn into.
CapturesAreCurrent == capture = views /\ copied = views

\* What a call has set is still set when it reads the result.
SettingsLast ==
    \A c \in Calls :
        /\ spc[c] \in Borrowing \ {"resize"} => size = RequestSize[c]
        /\ spc[c] \in {"viewed", "render", "rendered", "result"} =>
               RequestCamera[c] \in {NoCamera, camera}
        /\ spc[c] \in {"rendered", "result"} => image = Picture(size, camera, views)

RenderingInv ==
    /\ TypeOK /\ CallHasMutex /\ CapturesAreCurrent /\ SettingsLast
    /\ DOMAIN response = Calls /\ AnswerIsWhatWasAsked
=============================================================================
