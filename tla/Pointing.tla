------------------------------ MODULE Pointing ------------------------------
(***************************************************************************)
(* Pointing at what a picture shows: the tools of the MCP server           *)
(* (journeydrive_mcp/server.py) and of the automation runner               *)
(* (journeydrive_automation/tools.py) that take a picture of a machine or  *)
(* move its pointer, through the client, the broker's routes and the thin  *)
(* client's capture.                                                       *)
(*                                                                         *)
(* The broker serves the monitors a machine reported when it connected;    *)
(* pictures and clicks are of the monitors it has now.  A tool asks for    *)
(* one after the other, each an await: the display may change, or the      *)
(* machine reconnect, in between.  One call is in progress at a time.      *)
(*                                                                         *)
(* A definition named X_Y is not part of the specification: it is X with a *)
(* bug Y, which the properties must tell from X.                           *)
(***************************************************************************)
EXTENDS Geometry

CONSTANTS
  Layouts,        \* the monitors a machine may have, the box of all first
  Calls,          \* the calls that are made
  DefaultMonitor  \* config.screenshot.monitor of the thin client

Coordinate == Int \cup {None}
CallType ==
  [by : {"mcp", "automation"},
   tool : {"take_screenshot", "preview_click", "move_mouse", "click_mouse"},
   x : Coordinate, y : Coordinate, fx : Coordinate, fy : Coordinate,
   monitor : Coordinate, relative : BOOLEAN,
   fx1 : Coordinate, fy1 : Coordinate, fx2 : Coordinate, fy2 : Coordinate]

ASSUME LayoutsAssumption == \A l \in Layouts : l \in Seq(Box) /\ Len(l) > 0
ASSUME CallsAssumption == Calls \subseteq CallType
ASSUME DefaultAssumption == DefaultMonitor \in Nat
ASSUME NoneIsNoData == None \notin Layouts \cup Calls \cup Pixel \cup Box

VARIABLES
  display,   \* the monitors the machine has
  layout,    \* those in the broker's cache; None when it is not connected
  call,      \* the call in progress, or the last one
  at,        \* what it awaits, or how it ended
  monitors,  \* the list it has read (preview_click, ToolExecutor)
  pixel,     \* the pixel it has resolved
  image,     \* the part of the screen that its picture shows
  \* history
  stable,    \* since the call began the cache, when there is one, has been
             \* what the machine has
  seen       \* the last whole picture, while that is so

worldVars == <<display, layout>>
callVars == <<call, at, monitors, pixel, image>>
vars == <<worldVars, callVars, stable, seen>>

Awaits == {"list", "resolve", "act", "grab", "crop"}

TypeOK ==
  /\ display \in Layouts
  /\ layout \in Layouts \cup {None}
  /\ call \in Calls \cup {None}
  /\ at \in Awaits \cup {"idle", "done", "failed"}
  /\ monitors \in Layouts \cup {None}
  /\ pixel \in Pixel \cup {None}
  /\ image \in Box \cup {None}
  /\ stable \in BOOLEAN
  /\ seen \in [by : {"mcp", "automation"}, monitor : Coordinate, shows : Box] \cup {None}
  /\ at \in Awaits => call \in Calls

Init ==
  /\ display \in Layouts
  /\ layout \in {None, display}
  /\ call = None /\ at = "idle"
  /\ monitors = None /\ pixel = None /\ image = None
  /\ stable = FALSE /\ seen = None

-----------------------------------------------------------------------------
(* The machine and its connection.                                         *)

DisplayChanges ==
  /\ \E l \in Layouts \ {display} : display' = l
  /\ stable' = FALSE /\ seen' = None
  /\ UNCHANGED <<layout, callVars>>

Disconnects ==
  /\ layout # None
  /\ layout' = None
  /\ UNCHANGED <<display, callVars, stable, seen>>

(* A connection reports the monitors of that moment.                       *)
Connects ==
  /\ layout = None
  /\ layout' = display
  /\ UNCHANGED <<display, callVars, stable, seen>>

-----------------------------------------------------------------------------
(* What a call does between two awaits.                                    *)

Fails == at' = "failed" /\ UNCHANGED <<call, monitors, pixel, image>>

HasFraction == call.fx # None
Previews == call.tool = "preview_click"
Then == IF Previews THEN "grab" ELSE "act"

(* _resolve_xy, but for the list of monitors a fraction is resolved with.  *)
resolve_xy(allow_neither) ==
  IF \/ (call'.x = None) # (call'.y = None)
     \/ (call'.fx = None) # (call'.fy = None)
     \/ call'.x # None /\ call'.fx # None
     \/ ~ allow_neither /\ call'.x = None /\ call'.fx = None
  THEN at' = "failed" /\ pixel' = None
  ELSE IF call'.fx # None THEN at' = "resolve" /\ pixel' = None
  ELSE /\ at' = IF call'.tool = "preview_click" THEN "grab" ELSE "act"
       /\ pixel' = IF call'.x # None THEN [x |-> call'.x, y |-> call'.y] ELSE None

(* ToolExecutor._pixel takes fractions of 0.0 to 1.0 only.                 *)
_pixel ==
  /\ at' = IF call'.fx \in 0..Unit /\ call'.fy \in 0..Unit THEN "resolve" ELSE "failed"
  /\ pixel' = None

(* A tool is called.                                                       *)
Begins(c) ==
  /\ at \notin Awaits
  /\ call' = c
  /\ monitors' = None /\ image' = None
  /\ stable' = (layout \in {None, display})
  /\ UNCHANGED <<worldVars, seen>>

take_screenshot(c) ==
  /\ c.tool = "take_screenshot"
  /\ Begins(c)
  /\ at' = IF c.by = "automation" THEN "list" ELSE "grab"
  /\ pixel' = None

preview_click(c) ==
  /\ c.tool = "preview_click"
  /\ Begins(c)
  /\ at' = "list" /\ pixel' = None

(* A relative move takes an offset in pixels.                              *)
move_mouse_Halves(c) ==
  /\ c.tool = "move_mouse"
  /\ Begins(c)
  /\ IF c.by = "automation" THEN _pixel
     ELSE IF ~ c.relative THEN resolve_xy(FALSE)
     ELSE IF c.fx # None \/ c.fy # None THEN at' = "failed" /\ pixel' = None
     ELSE at' = "act" /\ pixel' = [x |-> c.x, y |-> c.y]

move_mouse(c) ==
  /\ c.tool = "move_mouse"
  /\ Begins(c)
  /\ IF c.by = "automation" THEN _pixel
     ELSE IF ~ c.relative THEN resolve_xy(FALSE)
     ELSE IF c.fx # None \/ c.fy # None \/ c.x = None \/ c.y = None
     THEN at' = "failed" /\ pixel' = None
     ELSE at' = "act" /\ pixel' = [x |-> c.x, y |-> c.y]

click_mouse(c) ==
  /\ c.tool = "click_mouse"
  /\ Begins(c)
  /\ IF c.by = "automation" THEN _pixel ELSE resolve_xy(TRUE)

-----------------------------------------------------------------------------
(* The awaits: requests to the broker, which knows no machine that is not  *)
(* connected.                                                              *)

(* The first list_monitors of a preview, and that of the runner's          *)
(* screenshot.  The runner resolves its monitor at once.                   *)
list_monitors ==
  /\ at = "list"
  /\ IF layout = None \/ (call.by = "automation" /\ ~ InRange(layout, call.monitor))
     THEN Fails
     ELSE /\ monitors' = layout
          /\ UNCHANGED <<call, image>>
          /\ IF call.tool = "take_screenshot" THEN at' = "grab" /\ pixel' = None
             ELSE IF call.by = "automation" THEN _pixel
             ELSE resolve_xy(FALSE)
  /\ UNCHANGED <<worldVars, stable, seen>>

(* The monitor a fraction is of: the MCP server's preview asks again, for  *)
(* the monitor it has found the first time.                                *)
TargetIndex ==
  IF Previews /\ call.by = "mcp" THEN Index(monitors, call.monitor) ELSE call.monitor

resolve_fraction ==
  /\ at = "resolve"
  /\ IF layout = None \/ ~ InRange(layout, TargetIndex)
     THEN Fails
     ELSE /\ pixel' = fraction_to_pixel(resolve_monitor(layout, TargetIndex), call.fx, call.fy)
          /\ at' = Then
          /\ UNCHANGED <<call, monitors, image>>
  /\ UNCHANGED <<worldVars, stable, seen>>

(* The click or move is performed.                                         *)
act ==
  /\ at = "act"
  /\ at' = IF layout = None THEN "failed" ELSE "done"
  /\ UNCHANGED <<worldVars, call, monitors, pixel, image, stable, seen>>

(* The index in the request for a picture: the one given, the preview's    *)
(* own, or the "index" of the monitor the runner has resolved.             *)
GrabIndex_RunnersOwn ==
  IF Previews /\ call.by = "mcp" THEN Index(monitors, call.monitor) ELSE call.monitor

GrabIndex ==
  IF call.by = "automation" THEN Position(monitors, call.monitor)
  ELSE IF Previews THEN Index(monitors, call.monitor)
  ELSE call.monitor

(* The thin client takes its own default when the request names none.      *)
Grabbed == IF GrabIndex = None THEN DefaultMonitor ELSE GrabIndex

CropKeys == {call.fx1, call.fy1, call.fx2, call.fy2}
Crops == call.by = "mcp" /\ call.tool = "take_screenshot" /\ CropKeys # {None}

Remember(picture) ==
  seen' = IF stable THEN [by |-> call.by, monitor |-> call.monitor, shows |-> picture]
          ELSE None

(* A picture that cannot be cropped, or marked, is not returned.           *)
grab ==
  /\ at = "grab"
  /\ IF \/ layout = None
        \/ Grabbed \notin 0..Len(display) - 1
        \/ Crops /\ None \in CropKeys
        \/ Previews /\ ~ InRange(monitors, call.monitor)
     THEN Fails /\ UNCHANGED seen
     ELSE /\ image' = display[Grabbed + 1]
          /\ IF Crops THEN at' = "crop" /\ UNCHANGED seen
             ELSE at' = "done" /\ Remember(image')
          /\ UNCHANGED <<call, monitors, pixel>>
  /\ UNCHANGED <<worldVars, stable>>

(* The region, in pixels of the monitor that the broker's list has.        *)
CropTarget_Default == resolve_monitor(layout, None)

CropTarget == resolve_monitor(layout, call.monitor)

Empty(x1, y1, x2, y2) == x2 <= x1 \/ y2 <= y1

take_crop ==
  /\ at = "crop"
  /\ IF layout = None \/ ~ InRange(layout, call.monitor)
     THEN Fails
     ELSE LET x1 == Round(call.fx1 * CropTarget.width)
              y1 == Round(call.fy1 * CropTarget.height)
              x2 == Round(call.fx2 * CropTarget.width)
              y2 == Round(call.fy2 * CropTarget.height)
          IN IF Empty(x1, y1, x2, y2) THEN Fails
             ELSE /\ image' = crop(image, x1, y1, x2, y2)
                  /\ at' = "done"
                  /\ UNCHANGED <<call, monitors, pixel>>
  /\ UNCHANGED <<worldVars, stable, seen>>

(* A request fails otherwise, by a timeout for one: JourneyDriveError.     *)
request_fails ==
  /\ at \in Awaits
  /\ Fails
  /\ UNCHANGED <<worldVars, stable, seen>>

Tool(c) == take_screenshot(c) \/ preview_click(c) \/ move_mouse(c) \/ click_mouse(c)

Next ==
  \/ DisplayChanges \/ Disconnects \/ Connects
  \/ \E c \in Calls : Tool(c)
  \/ list_monitors \/ resolve_fraction \/ act \/ grab \/ take_crop
  \/ request_fails

Spec == Init /\ [][Next]_vars

-----------------------------------------------------------------------------
(* Properties.  The documents accept that the cache is stale after a       *)
(* display change until the machine reconnects: what is promised is        *)
(* promised while it is not.                                               *)

Clicked == at = "done" /\ call.tool \in {"move_mouse", "click_mouse"} /\ HasFraction

(* What a click at the call's fraction hits, on the monitors there are.    *)
Aimed == fraction_to_pixel(resolve_monitor(display, call.monitor), call.fx, call.fy)

SameMonitor == seen # None /\ seen.by = call.by /\ seen.monitor = call.monitor

SeenPixel == fraction_to_pixel(seen.shows, call.fx, call.fy)

(* A click at a fraction measured on the last picture, for the same        *)
(* monitor, hits what was there in the picture: by a monitor's index, and  *)
(* in the runner also by default (take_screenshot, screenshot, _pixel).    *)
HitsWhatItSaw ==
  Clicked /\ stable /\ SameMonitor /\ (call.by = "mcp" => call.monitor # None)
    => pixel = SeenPixel

MarkerOnScreen ==
  LET target == resolve_monitor(monitors, call.monitor)
      marker == draw_crosshair(image, pixel.x - target.left, pixel.y - target.top)
  IN [x |-> image.left + marker.x, y |-> image.top + marker.y]

(* The pixel itself, or the one nearest to it between the edges.           *)
Nearest(v, first, size) ==
  IF v < first THEN first ELSE IF v >= first + size THEN first + size - 1 ELSE v

(* The marker of a preview is exactly where the click would be when that   *)
(* is on the monitor of the picture, and else on the nearest pixel of its  *)
(* edge: so for pixels and fractions elsewhere, and for a fraction that    *)
(* rounds to the pixel after the last, 1.0 itself always (preview_click,   *)
(* draw_crosshair).                                                        *)
PreviewShowsTheClick ==
  at = "done" /\ Previews /\ stable =>
    LET m == resolve_monitor(display, call.monitor)
        hit == IF HasFraction THEN Aimed ELSE [x |-> call.x, y |-> call.y]
    IN /\ MarkerOnScreen.x = Nearest(hit.x, m.left, m.width)
       /\ MarkerOnScreen.y = Nearest(hit.y, m.top, m.height)

(* What two intervals have in common.                                      *)
Later(a, b) == IF a < b THEN b ELSE a
Earlier(a, b) == IF a < b THEN a ELSE b

(* A crop of the monitor with an index shows the region asked for, as      *)
(* clicks at the same fractions would find it, and of a region that is     *)
(* partly elsewhere what is on the monitor, never a part of another one    *)
(* (take_screenshot).                                                      *)
CropShowsTheRegion ==
  at = "done" /\ Crops /\ stable /\ call.monitor # None =>
    LET m == resolve_monitor(display, call.monitor)
        from == fraction_to_pixel(m, call.fx1, call.fy1)
        to == fraction_to_pixel(m, call.fx2, call.fy2)
        left == Later(from.x, m.left)
        top == Later(from.y, m.top)
        right == Earlier(to.x, m.left + m.width)
        bottom == Earlier(to.y, m.top + m.height)
    IN image = IF right <= left \/ bottom <= top THEN None
               ELSE [left |-> left, top |-> top, width |-> right - left, height |-> bottom - top]

-----------------------------------------------------------------------------
(* "A fraction of the image is correct regardless of what size the model   *)
(* actually perceived it at" (docs/MCP_SERVER.md): a click at a fraction   *)
(* measured on the last picture hits what was there in the picture, when   *)
(* both calls name the same monitor or none.                               *)
FractionOfTheImage == Clicked /\ stable /\ SameMonitor => pixel = SeenPixel
=============================================================================
