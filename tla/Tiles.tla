------------------------------- MODULE Tiles -------------------------------
(***************************************************************************)
(* The tiled composite renderer: it divides its surface among the render   *)
(* services, has every tile rendered by a call of its own job, and draws   *)
(* the composed image.  The plugin's listener changes the tiling when a    *)
(* render service is registered.  The services are those of RemoteCalls    *)
(* and Rendering; here a call is answered with an image of the extent it   *)
(* asked for, or fails.                                                    *)
(***************************************************************************)
EXTENDS Naturals, FiniteSets

CONSTANTS
    Widths,          \* widths of the surface
    Events,          \* notifications of registered render services
    InitialServices, \* services that are registered before
    MaxFrames,       \* bound: frames rendered
    MaxLost,         \* bound: services that disappear
    PluginInit,      \* the installation of the plugin
    Nobody

ConstantsOK ==
    /\ Widths \subseteq Nat /\ Widths # {}
    /\ InitialServices \in Nat /\ MaxFrames \in Nat /\ MaxLost \in Nat
    /\ Nobody # "render"

VARIABLES
    width,     \* width of the output renderer
    services,  \* number of callables of the service "render"
    count,     \* m_current_service_count
    tiles,     \* m_tile_infos: index -> [x, width]
    buffers,   \* m_image_buffers: index -> [width, tiling, shows]
    tiling,    \* how often the buffers have been replaced
    drawn,     \* the tiling that the scene of the output renderer has
    lock,      \* owner of m_image_buffers_and_tiling_mutex
    rpc,       \* where Render is
    job,       \* tile jobs of the frame: index -> [request, tiling, state]
    frames,    \* frames begun
    lost,      \* services that have disappeared
    epc,       \* where the handling of a notification, or Init, is
    seen       \* what GetCallableCount returned to it

tilingVars == <<count, tiles, buffers, tiling, drawn>>
vars == <<width, services, tilingVars, lock, rpc, job, frames, lost, epc, seen>>

Empty == [i \in {} |-> 0]
Blank == [frame |-> 0]
Threads == Events \cup {PluginInit}

\* UpdateTilingInfo and CreateSceneWithTilingQuads.
TilesOf(n, w) == [i \in 1 .. n |-> [x |-> (i - 1) * (w \div n), width |-> w \div n]]

\* Mutant: the scene with the tiles is not created anew.
SceneKept(n) ==
    /\ count' = n
    /\ tiling' = tiling + 1
    /\ tiles' = TilesOf(n, width)
    /\ buffers' = [i \in 1 .. n |->
                      [width |-> tiles'[i].width, tiling |-> tiling', shows |-> Blank]]
    /\ UNCHANGED drawn

UpdateTilingInfo(n) ==
    /\ count' = n
    /\ tiling' = tiling + 1
    /\ tiles' = TilesOf(n, width)
    /\ buffers' = [i \in 1 .. n |->
                      [width |-> tiles'[i].width, tiling |-> tiling', shows |-> Blank]]
    /\ drawn' = tiling'

Init ==
    /\ width \in Widths
    /\ services = InitialServices
    /\ count = 0
    /\ tiles = Empty /\ buffers = Empty
    /\ tiling = 0 /\ drawn = 0
    /\ lock = Nobody
    /\ rpc = "idle"
    /\ job = Empty
    /\ frames = 0
    /\ lost = 0
    /\ epc = [e \in Threads |-> IF e = PluginInit THEN "notified" ELSE "none"]
    /\ seen = [e \in Threads |-> 0]

-----------------------------------------------------------------------------
(* The plugin *)

\* Init of the plugin registers the listener and sets the first count like
\* the listener does; a notification means that there is another service.
ServiceRegistered(e) ==
    /\ epc[e] = "none"
    /\ services' = services + 1
    /\ epc' = [epc EXCEPT ![e] = "notified"]
    /\ UNCHANGED <<width, tilingVars, lock, rpc, job, frames, lost, seen>>

\* Nobody is notified of a service that has disappeared.
ServiceLost ==
    /\ services > 0 /\ lost < MaxLost
    /\ services' = services - 1
    /\ lost' = lost + 1
    /\ UNCHANGED <<width, tilingVars, lock, rpc, job, frames, epc, seen>>

\* Find and GetCallableCount; the listener gives up if nothing is found.
CountServices(e) ==
    /\ epc[e] = "notified"
    /\ epc' = [epc EXCEPT ![e] =
                   IF services = 0 /\ e # PluginInit THEN "set" ELSE "counted"]
    /\ seen' = [seen EXCEPT ![e] = services]
    /\ UNCHANGED <<width, services, tilingVars, lock, rpc, job, frames, lost>>

\* Mutant: the mutex of the tiling is not acquired.
NotLocked(p) == p \in Threads \cup {"render"}
Locked(p) == lock = Nobody

SetServiceCount(e) ==
    /\ epc[e] = "counted"
    /\ Locked(e)
    /\ UpdateTilingInfo(seen[e])
    /\ epc' = [epc EXCEPT ![e] = "set"]
    /\ UNCHANGED <<width, services, lock, rpc, job, frames, lost, seen>>

-----------------------------------------------------------------------------
(* Render *)

\* Without services there is nothing to render; the count is read before
\* the lock is acquired.
RenderCheck ==
    /\ rpc = "idle"
    /\ frames < MaxFrames
    /\ count >= 1
    /\ rpc' = "lock"
    /\ frames' = frames + 1
    /\ UNCHANGED <<width, services, tilingVars, lock, job, lost, epc, seen>>

RenderLock ==
    /\ rpc = "lock"
    /\ Locked("render")
    /\ lock' = "render"
    /\ rpc' = "find"
    /\ UNCHANGED <<width, services, tilingVars, job, frames, lost, epc, seen>>

\* One job per tile is kicked; they are bound to the index of their tile.
RenderKick ==
    /\ rpc = "find"
    /\ \/ /\ services > 0
          /\ rpc' = "wait"
          /\ job' = [i \in DOMAIN tiles |->
                        [request |-> tiles[i].width, tiling |-> tiling,
                         state |-> "kicked"]]
          /\ UNCHANGED lock
       \/ /\ services = 0
          /\ rpc' = "idle"
          /\ lock' = Nobody
          /\ UNCHANGED job
    /\ UNCHANGED <<width, services, tilingVars, frames, lost, epc, seen>>

\* The response is copied into the buffer that has the index of the tile.
TileAnswered(i) ==
    /\ job[i].state = "kicked"
    /\ job' = [job EXCEPT ![i].state = "ended"]
    /\ \/ /\ i \in DOMAIN buffers
          /\ buffers' = [buffers EXCEPT ![i].shows =
                            [frame |-> frames, width |-> job[i].request,
                             tiling |-> job[i].tiling]]
       \/ UNCHANGED buffers       \* the call failed, or cannot be decoded
    /\ UNCHANGED <<width, services, count, tiles, tiling, drawn, lock, rpc,
                   frames, lost, epc, seen>>

RenderOutput ==
    /\ rpc = "wait"
    /\ \A i \in DOMAIN job : job[i].state = "ended"
    /\ rpc' = "idle"
    /\ lock' = Nobody
    /\ job' = Empty
    /\ UNCHANGED <<width, services, tilingVars, frames, lost, epc, seen>>

\* Resize only resizes the output renderer.
Resize(w) ==
    /\ w # width
    /\ width' = w
    /\ UNCHANGED <<services, tilingVars, lock, rpc, job, frames, lost, epc, seen>>

Listener(e) == ServiceRegistered(e) \/ CountServices(e) \/ SetServiceCount(e)
Render == RenderCheck \/ RenderLock \/ RenderKick \/ RenderOutput
Tile == \E i \in DOMAIN job : TileAnswered(i)

Next == (\E e \in Threads : Listener(e)) \/ ServiceLost \/ Render \/ Tile
        \/ \E w \in Widths : Resize(w)

Spec == Init /\ [][Next]_vars

-----------------------------------------------------------------------------
(* Properties *)

\* Every variable has its type.
TypeOK ==
    /\ width \in Widths /\ services \in Nat /\ count \in Nat
    /\ DOMAIN tiles = 1 .. count /\ DOMAIN buffers = 1 .. count
    /\ tiling \in Nat /\ drawn = tiling
    /\ lock \in {Nobody, "render"}
    /\ rpc \in {"idle", "lock", "find", "wait"}
    /\ frames \in 0 .. MaxFrames /\ lost \in 0 .. MaxLost
    /\ epc \in [Threads -> {"none", "notified", "counted", "set"}]
    /\ seen \in [Threads -> Nat]

\* Whatever is copied into a buffer was requested with the extent of that
\* very buffer and for that tile: the tiling does not change while jobs of
\* a frame are under way, although registrations, the frame and its jobs
\* run in different threads.
ImageFitsItsTile ==
    \A i \in DOMAIN buffers : buffers[i].shows # Blank =>
        /\ buffers[i].shows.width = buffers[i].width
        /\ buffers[i].shows.tiling = buffers[i].tiling

\* Every registered render service gets a tile in the end.
EveryServiceGetsATile ==
    lost = 0 /\ (\A e \in Threads : epc[e] \in {"none", "set"}) => count = services

\* The tiles cover the surface.
TilesCoverTheSurface ==
    count > 0 => tiles[count].x + tiles[count].width = width

-----------------------------------------------------------------------------
(* The inductive invariant *)

\* The tiling is locked from the time its jobs are kicked until they ended.
FrameHasLock ==
    /\ lock = "render" <=> rpc \in {"find", "wait"}
    /\ rpc # "wait" => DOMAIN job = {}

\* The jobs of the frame are those of the current tiling, and so are the
\* buffers, index by index.
JobsFitTiles ==
    rpc = "wait" =>
        /\ DOMAIN job = 1 .. count
        /\ \A i \in 1 .. count :
               job[i] = [request |-> tiles[i].width, tiling |-> tiling,
                         state |-> job[i].state]
BuffersFitTiles ==
    \A i \in 1 .. count :
        buffers[i] = [width |-> tiles[i].width, tiling |-> tiling,
                      shows |-> buffers[i].shows]

TilesInv ==
    TypeOK /\ FrameHasLock /\ JobsFitTiles /\ BuffersFitTiles /\ ImageFitsItsTile
=============================================================================
