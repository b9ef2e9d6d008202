--------------------------- MODULE PointingProofs ---------------------------
(***************************************************************************)
(* Proofs about pointing at what a picture shows, for every set of layouts *)
(* and of calls, every unit of fractions and every default monitor.        *)
(***************************************************************************)
EXTENDS Pointing, TLAPS

-----------------------------------------------------------------------------
(* The geometry.                                                           *)

(* Quotient and remainder by the unit.                                     *)
LEMMA Division ==
  ASSUME NEW n \in Int
  PROVE  /\ n \div Unit \in Int /\ n % Unit \in Int
         /\ n = Unit * (n \div Unit) + (n % Unit)
         /\ 0 <= n % Unit /\ n % Unit < Unit
<1> QED BY UnitAssumption

(* Rounding gives a whole number of pixels.                                *)
LEMMA RoundInt ==
  ASSUME NEW n \in Int
  PROVE  Round(n) \in Int
<1> QED BY Division DEF Round

(* Rounding goes to a nearest pixel and keeps the order of fractions: a    *)
(* click is at most half a pixel from the point that was meant, and of two *)
(* points the one further right or down is never clicked further left or   *)
(* up (geometry.fraction_to_pixel).                                        *)
THEOREM RoundsToNearest ==
  /\ \A n \in Int : 2 * (Unit * Round(n) - n) \in -Unit..Unit
  /\ \A a, b \in Int : a <= b => Round(a) <= Round(b)
<1>1. ASSUME NEW n \in Int PROVE 2 * (Unit * Round(n) - n) \in -Unit..Unit
  <2> DEFINE q == n \div Unit
             r == n % Unit
  <2>1. q \in Int /\ r \in Int /\ n = Unit * q + r /\ 0 <= r /\ r < Unit
    BY <1>1, Division
  <2>2. \/ Round(n) = q /\ 2 * r <= Unit
        \/ Round(n) = q + 1 /\ 2 * r >= Unit
    BY <2>1, UnitAssumption DEF Round
  <2> HIDE DEF q, r
  <2>3. Unit * (q + 1) = Unit * q + Unit
    BY <2>1, UnitAssumption
  <2> QED BY <2>1, <2>2, <2>3, UnitAssumption
<1>2. ASSUME NEW a \in Int, NEW b \in Int, a <= b PROVE Round(a) <= Round(b)
  <2> DEFINE p == a \div Unit
             q == b \div Unit
             r == a % Unit
             s == b % Unit
  <2>1. /\ p \in Int /\ r \in Int /\ a = Unit * p + r /\ 0 <= r /\ r < Unit
        /\ q \in Int /\ s \in Int /\ b = Unit * q + s /\ 0 <= s /\ s < Unit
    BY <1>2, Division
  <2>2. /\ Round(a) = IF 2 * r < Unit \/ (2 * r = Unit /\ p % 2 = 0) THEN p ELSE p + 1
        /\ Round(b) = IF 2 * s < Unit \/ (2 * s = Unit /\ q % 2 = 0) THEN q ELSE q + 1
    BY DEF Round
  <2> HIDE DEF p, q, r, s
  <2>3. p < q \/ (p = q /\ r <= s)
    <3>1. ASSUME q < p PROVE FALSE
      <4>1. \A k \in Nat \ {0} : Unit * k >= Unit
        BY UnitAssumption
      <4>2. Unit * (p - q) >= Unit /\ Unit * (p - q) = Unit * p - Unit * q
        BY <2>1, <3>1, <4>1, UnitAssumption
      <4> QED BY <1>2, <2>1, <4>2, UnitAssumption
    <3>2. p = q => r <= s
      BY <1>2, <2>1, UnitAssumption
    <3> QED BY <2>1, <3>1, <3>2
  <2>4. CASE p < q
    BY <2>1, <2>2, <2>4
  <2>5. CASE p = q /\ r <= s
    BY <2>1, <2>2, <2>5, UnitAssumption
  <2> QED BY <2>3, <2>4, <2>5
<1> QED BY <1>1, <1>2

(* A fraction of 0.0 to 1.0 is inside the picture or the pixel after it,   *)
(* and 1.0 is always that.                                                 *)
LEMMA RoundInside ==
  ASSUME NEW f \in 0..Unit, NEW w \in Nat \ {0}
  PROVE  Round(f * w) \in 0..w /\ (f = Unit => Round(f * w) = w)
<1> DEFINE n == f * w
           q == n \div Unit
           r == n % Unit
<1>1. n \in Int /\ 0 <= n /\ n <= Unit * w
  BY UnitAssumption
<1>2. q \in Int /\ r \in Int /\ n = Unit * q + r /\ 0 <= r /\ r < Unit
  BY <1>1, Division
<1>3. 0 <= q
  BY <1>1, <1>2, UnitAssumption
<1>4. q < w \/ (q = w /\ r = 0)
  BY <1>1, <1>2, UnitAssumption
<1>6. f = Unit => q = w /\ r = 0
  <2> SUFFICES ASSUME f = Unit PROVE q = w /\ r = 0
    OBVIOUS
  <2>1. Unit * w = Unit * q + r
    BY <1>2
  <2> HIDE DEF q, r
  <2>2. ~ (q < w)
    <3> SUFFICES ASSUME q < w PROVE FALSE
      OBVIOUS
    <3>1. \A k \in Nat \ {0} : Unit * k >= Unit
      BY UnitAssumption
    <3>2. Unit * (w - q) >= Unit /\ Unit * (w - q) = Unit * w - Unit * q
      BY <1>2, <3>1, UnitAssumption
    <3> QED BY <1>2, <2>1, <3>2, UnitAssumption
  <2> QED BY <1>4, <2>2
<1>5. Round(n) \in {q, q + 1} /\ (r = 0 => Round(n) = q)
  BY <1>2, UnitAssumption DEF Round
<1> QED BY <1>2, <1>3, <1>4, <1>5, <1>6

(* The pixel of a fraction, and the part of a picture that is cut out.     *)
LEMMA PixelType ==
  ASSUME NEW m \in Box, NEW fx \in Int, NEW fy \in Int
  PROVE  /\ fraction_to_pixel(m, fx, fy) \in Pixel
         /\ fraction_to_pixel(m, fx, fy).x = m.left + Round(fx * m.width)
         /\ fraction_to_pixel(m, fx, fy).y = m.top + Round(fy * m.height)
<1>1. Round(fx * m.width) \in Int /\ Round(fy * m.height) \in Int
  BY RoundInt DEF Box
<1> QED BY <1>1 DEF fraction_to_pixel, Pixel, Box

LEMMA CropType ==
  ASSUME NEW m \in Box, NEW x1 \in Int, NEW y1 \in Int, NEW x2 \in Int, NEW y2 \in Int,
         ~ Empty(x1, y1, x2, y2)
  PROVE  crop(m, x1, y1, x2, y2) \in Box \cup {None}
<1> DEFINE left == Cut(x1, m.width)
           top == Cut(y1, m.height)
           right == Cut(x2, m.width)
           bottom == Cut(y2, m.height)
<1>1. left \in Int /\ top \in Int /\ right \in Int /\ bottom \in Int
  BY DEF Cut, Box
<1>2. crop(m, x1, y1, x2, y2) =
        IF right <= left \/ bottom <= top THEN None
        ELSE [left |-> m.left + left, top |-> m.top + top,
              width |-> right - left, height |-> bottom - top]
  BY DEF crop
<1> HIDE DEF left, top, right, bottom
<1> QED BY <1>1, <1>2 DEF Box

(* Cutting a region out of a picture leaves what the two have in common.   *)
Intersection(m, x1, y1, x2, y2) ==
  LET left == Later(x1, m.left)
      top == Later(y1, m.top)
      right == Earlier(x2, m.left + m.width)
      bottom == Earlier(y2, m.top + m.height)
  IN IF right <= left \/ bottom <= top THEN None
     ELSE [left |-> left, top |-> top, width |-> right - left, height |-> bottom - top]

LEMMA CropCuts ==
  ASSUME NEW m \in Box, NEW x1 \in Int, NEW y1 \in Int, NEW x2 \in Int, NEW y2 \in Int
  PROVE  crop(m, x1, y1, x2, y2) =
           Intersection(m, m.left + x1, m.top + y1, m.left + x2, m.top + y2)
<1> DEFINE l == Cut(x1, m.width)
           t == Cut(y1, m.height)
           r == Cut(x2, m.width)
           b == Cut(y2, m.height)
           left == Later(m.left + x1, m.left)
           top == Later(m.top + y1, m.top)
           right == Earlier(m.left + x2, m.left + m.width)
           bottom == Earlier(m.top + y2, m.top + m.height)
<1>1. /\ crop(m, x1, y1, x2, y2) =
           IF r <= l \/ b <= t THEN None
           ELSE [left |-> m.left + l, top |-> m.top + t, width |-> r - l, height |-> b - t]
      /\ Intersection(m, m.left + x1, m.top + y1, m.left + x2, m.top + y2) =
           IF right <= left \/ bottom <= top THEN None
           ELSE [left |-> left, top |-> top, width |-> right - left, height |-> bottom - top]
  BY DEF crop, Intersection
<1>0. /\ m.left \in Int /\ m.width \in Nat \ {0}
      /\ m.top \in Int /\ m.height \in Nat \ {0}
  BY DEF Box
<1>2. (r <= l <=> right <= left) /\ (r > l => left = m.left + l /\ right = m.left + r)
  BY <1>0 DEF Cut, Later, Earlier
<1>3. (b <= t <=> bottom <= top) /\ (b > t => top = m.top + t /\ bottom = m.top + b)
  BY <1>0 DEF Cut, Later, Earlier
<1>4. l \in Int /\ t \in Int /\ r \in Int /\ b \in Int
  BY <1>0 DEF Cut
<1> HIDE DEF l, t, r, b, left, top, right, bottom
<1>5. CASE r <= l \/ b <= t
  BY <1>1, <1>2, <1>3, <1>5
<1>6. CASE r > l /\ b > t
  <2>1. ~ (r <= l) /\ ~ (b <= t) /\ ~ (right <= left) /\ ~ (bottom <= top)
    BY <1>0, <1>2, <1>3, <1>4, <1>6
  <2>2. right - left = r - l /\ bottom - top = b - t
    BY <1>0, <1>2, <1>3, <1>4, <1>6
  <2> QED BY <1>1, <1>2, <1>3, <1>6, <2>1, <2>2
<1> QED BY <1>4, <1>5, <1>6

(* A monitor that is there is at a position of the list.                   *)
LEMMA MonitorThere ==
  ASSUME NEW l \in Layouts, NEW i \in Coordinate, InRange(l, i)
  PROVE  /\ Index(l, i) \in Int
         /\ Position(l, i) \in 0..Len(l) - 1
         /\ resolve_monitor(l, i) \in Box
<1>1. l \in Seq(Box) /\ Len(l) \in Nat /\ Len(l) > 0
  BY LayoutsAssumption
<1>2. Index(l, i) \in Int
  BY UnitAssumption DEF Index, default_monitor_index, Coordinate
<1>3. Position(l, i) \in 0..Len(l) - 1
  BY <1>1, <1>2 DEF InRange, Position
<1>4. Position(l, i) + 1 \in 1..Len(l)
  BY <1>1, <1>3
<1> QED BY <1>1, <1>2, <1>3, <1>4 DEF resolve_monitor

(* Asking by the index that was found is asking for the same monitor.      *)
LEMMA SameIndex ==
  ASSUME NEW l \in Layouts, NEW i \in Coordinate
  PROVE  /\ Index(l, i) \in Coordinate
         /\ resolve_monitor(l, Index(l, i)) = resolve_monitor(l, i)
         /\ InRange(l, Index(l, i)) <=> InRange(l, i)
<1>1. Index(l, i) \in Int
  BY UnitAssumption DEF Index, default_monitor_index, Coordinate
<1>2. Index(l, Index(l, i)) = Index(l, i)
  BY <1>1, UnitAssumption DEF Index
<1> QED BY <1>1, <1>2 DEF resolve_monitor, Position, InRange, Coordinate

-----------------------------------------------------------------------------
(* Types, and which calls wait for what.                                   *)

Pointer == call.tool \in {"move_mouse", "click_mouse"}
Listed == Previews \/ (call.by = "automation" /\ call.tool = "take_screenshot")

CallInv ==
  /\ at = "list" => Listed
  /\ at = "resolve" => call.tool # "take_screenshot" /\ call.fx \in Int /\ call.fy \in Int
  /\ at = "act" => Pointer
  /\ at = "grab" => call.tool = "take_screenshot" \/ Previews
  /\ at \in {"resolve", "grab"} /\ Listed => monitors \in Layouts
  /\ at \in {"resolve", "grab"} /\ Listed /\ call.by = "automation" =>
       InRange(monitors, call.monitor)
  /\ at = "crop" => Crops /\ None \notin CropKeys /\ image \in Box
  /\ at = "done" => call \in Calls

TypeInv == TypeOK /\ CallInv

(* They hold at first.                                                     *)
LEMMA TypeInit == Init => TypeInv
<1> QED BY DEF Init, TypeInv, TypeOK, CallInv, Awaits

(* What the arguments of a call make of it.                                *)
LEMMA ResolveXyTypes ==
  ASSUME call' \in CallType, NEW b \in BOOLEAN, resolve_xy(b)
  PROVE  /\ at' \in {"failed", "resolve", "grab", "act"}
         /\ at' = "resolve" => call'.fx \in Int /\ call'.fy \in Int
         /\ at' = "grab" => call'.tool = "preview_click"
         /\ at' = "act" => call'.tool # "preview_click"
         /\ at' \in {"grab", "act"} => call'.fx = None
         /\ pixel' \in Pixel \cup {None}
<1>1. /\ call'.x \in Int \cup {None} /\ call'.y \in Int \cup {None}
      /\ call'.fx \in Int \cup {None} /\ call'.fy \in Int \cup {None}
  BY DEF CallType, Coordinate
<1> QED BY <1>1, UnitAssumption DEF resolve_xy, Pixel

LEMMA ResolveXyPixel ==
  ASSUME call' \in CallType, resolve_xy(FALSE), at' = "grab"
  PROVE  pixel' = [x |-> call'.x, y |-> call'.y] /\ pixel' \in Pixel
<1>1. call'.x \in Int \cup {None} /\ call'.y \in Int \cup {None}
  BY DEF CallType, Coordinate
<1>2. call'.x # None /\ call'.y # None /\ pixel' = [x |-> call'.x, y |-> call'.y]
  BY <1>1 DEF resolve_xy
<1> QED BY <1>1, <1>2 DEF Pixel

LEMMA PixelTypes ==
  ASSUME _pixel
  PROVE  /\ at' \in {"failed", "resolve"} /\ pixel' = None
         /\ at' = "resolve" => call'.fx \in Int /\ call'.fy \in Int
<1> QED BY UnitAssumption DEF _pixel

(* The tools keep them.                                                    *)
LEMMA ToolKeepsTypes ==
  ASSUME TypeInv, NEW c \in Calls, Tool(c)
  PROVE  TypeInv'
<1>0. Begins(c)
  BY DEF Tool, take_screenshot, preview_click, move_mouse, click_mouse
<1>9. stable' \in BOOLEAN
  <2>1. stable' = (layout \in {None, display})
    BY <1>0 DEF Begins
  <2>2. CASE layout \in {None, display}
    BY <2>1, <2>2
  <2>3. CASE layout \notin {None, display}
    BY <2>1, <2>3
  <2> QED BY <2>2, <2>3
<1>1. /\ c \in CallType /\ call' = c /\ monitors' = None /\ image' = None
      /\ stable' \in BOOLEAN /\ UNCHANGED <<display, layout, seen>>
  <2>1. UNCHANGED <<display, layout, seen>> /\ call' = c /\ monitors' = None /\ image' = None
    BY <1>0 DEF Begins, worldVars
  <2> QED BY <1>9, <2>1, CallsAssumption
<1>2. CASE take_screenshot(c)
  BY <1>1, <1>2
     DEF take_screenshot, TypeInv, TypeOK, CallInv, Listed, Previews, Pointer, Awaits, CallType
<1>3. CASE preview_click(c)
  BY <1>1, <1>3
     DEF preview_click, TypeInv, TypeOK, CallInv, Listed, Previews, Pointer, Awaits
<1>4. CASE move_mouse(c) \/ click_mouse(c)
  <2>1. c.tool \in {"move_mouse", "click_mouse"}
    BY <1>4 DEF move_mouse, click_mouse
  <2>2. \/ _pixel \/ resolve_xy(TRUE) \/ resolve_xy(FALSE)
        \/ at' = "failed" /\ pixel' = None
        \/ at' = "act" /\ pixel' = [x |-> c.x, y |-> c.y] /\ c.x # None /\ c.y # None
    BY <1>4 DEF move_mouse, click_mouse
  <2>3. /\ at' \in {"failed", "resolve", "act"}
        /\ at' = "resolve" => c.fx \in Int /\ c.fy \in Int
        /\ pixel' \in Pixel \cup {None}
    <3>1. CASE resolve_xy(TRUE)
      BY <1>1, <2>1, <3>1, ResolveXyTypes
    <3>2. CASE resolve_xy(FALSE)
      BY <1>1, <2>1, <3>2, ResolveXyTypes
    <3>3. CASE _pixel
      BY <1>1, <3>3, PixelTypes
    <3>4. CASE at' = "failed" /\ pixel' = None
      BY <3>4
    <3>5. CASE at' = "act" /\ pixel' = [x |-> c.x, y |-> c.y] /\ c.x # None /\ c.y # None
      BY <1>1, <3>5 DEF Pixel, CallType, Coordinate
    <3> QED BY <2>2, <3>1, <3>2, <3>3, <3>4, <3>5
  <2> QED BY <1>1, <2>1, <2>3
          DEF TypeInv, TypeOK, CallInv, Listed, Previews, Pointer, Awaits
<1> QED BY <1>2, <1>3, <1>4 DEF Tool

(* The awaits keep them.                                                   *)
LEMMA AwaitKeepsTypes ==
  ASSUME TypeInv,
         list_monitors \/ resolve_fraction \/ act \/ grab \/ take_crop \/ request_fails
  PROVE  TypeInv'
<1> USE NoneIsNoData DEF TypeInv
<1>1. /\ call' = call /\ call \in Calls /\ call \in CallType
      /\ UNCHANGED <<display, layout, stable>>
  BY CallsAssumption DEF list_monitors, resolve_fraction, act, grab, take_crop, request_fails,
     Fails, worldVars, TypeOK, Awaits
<1>2. CASE Fails /\ UNCHANGED seen
  BY <1>1, <1>2 DEF Fails, TypeOK, CallInv, Awaits
<1>3. CASE list_monitors /\ ~ Fails
  <2>1. /\ at = "list" /\ Listed /\ monitors' = layout /\ layout \in Layouts
        /\ UNCHANGED <<image, seen>>
        /\ call.by = "automation" => InRange(layout, call.monitor)
    BY <1>3 DEF list_monitors, TypeOK, CallInv
  <2>2. IF call.tool = "take_screenshot" THEN at' = "grab" /\ pixel' = None
        ELSE IF call.by = "automation" THEN _pixel
        ELSE resolve_xy(FALSE)
    BY <1>3 DEF list_monitors
  <2>3. /\ at' \in {"failed", "resolve", "grab"}
        /\ at' = "resolve" => /\ call.tool # "take_screenshot"
                              /\ call.fx \in Int /\ call.fy \in Int
        /\ pixel' \in Pixel \cup {None}
    BY <1>1, <2>1, <2>2, ResolveXyTypes, PixelTypes DEF Listed, Previews
  <2> QED BY <1>1, <2>1, <2>3 DEF TypeOK, CallInv, Listed, Previews, Awaits
<1>4. CASE resolve_fraction /\ ~ Fails
  <2>1. /\ at = "resolve" /\ layout \in Layouts /\ InRange(layout, TargetIndex)
        /\ pixel' = fraction_to_pixel(resolve_monitor(layout, TargetIndex), call.fx, call.fy)
        /\ at' = Then /\ UNCHANGED <<monitors, image, seen>>
    BY <1>4 DEF resolve_fraction, TypeOK
  <2>2. TargetIndex \in Coordinate
    BY <1>1, <2>1, SameIndex DEF TargetIndex, CallInv, Listed, CallType
  <2>3. pixel' \in Pixel
    BY <2>1, <2>2, MonitorThere, PixelType DEF CallInv
  <2> QED BY <1>1, <2>1, <2>3 DEF TypeOK, CallInv, Listed, Previews, Pointer, Then,
             Awaits, CallType
<1>5. CASE act
  BY <1>1, <1>5 DEF act, TypeOK, CallInv, Awaits
<1>6. CASE grab /\ ~ Fails
  <2>1. /\ at = "grab" /\ Grabbed \in 0..Len(display) - 1 /\ image' = display[Grabbed + 1]
        /\ ~ (Crops /\ None \in CropKeys)
        /\ \/ Crops /\ at' = "crop" /\ UNCHANGED seen
           \/ ~ Crops /\ at' = "done" /\ Remember(image')
        /\ UNCHANGED <<monitors, pixel>>
    BY <1>6 DEF grab
  <2>2. image' \in Box
    <3>1. display \in Seq(Box) /\ Grabbed + 1 \in 1..Len(display)
      BY <2>1, LayoutsAssumption DEF TypeOK
    <3> QED BY <2>1, <3>1
  <2>3. seen' \in [by : {"mcp", "automation"}, monitor : Coordinate, shows : Box] \cup {None}
    BY <1>1, <2>1, <2>2 DEF Remember, CallType, TypeOK
  <2> QED BY <1>1, <2>1, <2>2, <2>3
          DEF TypeOK, CallInv, Listed, Previews, Awaits, Crops, CropKeys
<1>7. CASE take_crop /\ ~ Fails
  <2> DEFINE x1 == Round(call.fx1 * CropTarget.width)
             y1 == Round(call.fy1 * CropTarget.height)
             x2 == Round(call.fx2 * CropTarget.width)
             y2 == Round(call.fy2 * CropTarget.height)
  <2>1. /\ at = "crop" /\ layout \in Layouts /\ InRange(layout, call.monitor)
        /\ image \in Box
        /\ ~ Empty(x1, y1, x2, y2) /\ image' = crop(image, x1, y1, x2, y2)
        /\ at' = "done" /\ UNCHANGED <<monitors, pixel, seen>>
    BY <1>7 DEF take_crop, TypeOK, CallInv
  <2>2. {call.fx1, call.fy1, call.fx2, call.fy2} \subseteq Int
    BY <1>1, <2>1 DEF CallInv, CropKeys, CallType, Coordinate
  <2>3. CropTarget \in Box
    BY <1>1, <2>1, MonitorThere DEF CropTarget, CallType
  <2>4. x1 \in Int /\ y1 \in Int /\ x2 \in Int /\ y2 \in Int
    BY <2>2, <2>3, RoundInt DEF Box
  <2>5. image' \in Box \cup {None}
    <3> HIDE DEF x1, y1, x2, y2
    <3> QED BY <2>1, <2>4, CropType
  <2> QED BY <1>1, <2>1, <2>5 DEF TypeOK, CallInv, Awaits
<1>8. request_fails => Fails /\ UNCHANGED seen
  BY DEF request_fails
<1>9. Fails /\ ~ act => UNCHANGED seen
  BY DEF list_monitors, resolve_fraction, grab, take_crop, request_fails, Fails
<1> QED BY <1>2, <1>3, <1>4, <1>5, <1>6, <1>7, <1>8, <1>9

(* Every step keeps them.                                                  *)
LEMMA TypeStep == TypeInv /\ [Next]_vars => TypeInv'
<1> SUFFICES ASSUME TypeInv, [Next]_vars PROVE TypeInv'
  OBVIOUS
<1>1. CASE UNCHANGED vars
  BY <1>1 DEF vars, worldVars, callVars, TypeInv, TypeOK, CallInv, Listed, Previews, Pointer,
     Crops, CropKeys, InRange, Index, default_monitor_index
<1>2. CASE DisplayChanges \/ Disconnects \/ Connects
  <2>1. /\ UNCHANGED <<call, at, monitors, pixel, image>>
        /\ display' \in Layouts /\ layout' \in Layouts \cup {None}
        /\ stable' \in {stable, FALSE} /\ seen' \in {seen, None}
    BY <1>2 DEF DisplayChanges, Disconnects, Connects, callVars, TypeInv, TypeOK
  <2>2. CallInv'
    BY <2>1 DEF TypeInv, CallInv, Listed, Previews, Pointer, Crops, CropKeys, InRange, Index,
       default_monitor_index
  <2>3. stable' \in BOOLEAN
    BY <2>1, Zenon DEF TypeInv, TypeOK
  <2>4. TypeOK'
    BY <2>1, <2>3 DEF TypeInv, TypeOK
  <2> QED BY <2>2, <2>4 DEF TypeInv
<1> QED BY <1>1, <1>2, ToolKeepsTypes, AwaitKeepsTypes DEF Next

LEMMA TypeInvariant == Spec => []TypeInv
<1> QED BY TypeInit, TypeStep, PTL DEF Spec

(* Values keep their types: what a list of monitors, an index, a fraction  *)
(* and a region make of a call are pixels and boxes, or it has failed      *)
(* (take_screenshot, preview_click, ToolExecutor), for every layout.       *)
THEOREM TypesRight == Spec => []TypeOK
<1> QED BY TypeInvariant, PTL DEF TypeInv

-----------------------------------------------------------------------------
(* What a call has read is still so, while nothing has changed.            *)

CacheInv == (stable \/ seen # None) => layout \in {None, display}

SeenInv ==
  seen # None /\ (seen.by = "mcp" => seen.monitor # None) =>
    seen.shows = resolve_monitor(display, seen.monitor)

ListInv ==
  stable /\ Listed /\ at \in {"resolve", "grab", "done"} => monitors = display

AimInv ==
  /\ stable /\ at \in {"grab", "act", "done"} /\ (Previews \/ Pointer) /\ HasFraction =>
       pixel = Aimed
  /\ at \in {"grab", "done"} /\ Previews /\ ~ HasFraction =>
       pixel = [x |-> call.x, y |-> call.y]
  /\ at \in {"grab", "done"} /\ Previews => pixel \in Pixel

(* The picture of a preview, or of a monitor by its index, is of that      *)
(* monitor.                                                                *)
ImageInv ==
  stable /\ ((at = "done" /\ Previews) \/ (at = "crop" /\ call.monitor # None)) =>
    InRange(display, call.monitor) /\ image = resolve_monitor(display, call.monitor)

PointInv ==
  CacheInv /\ SeenInv /\ ListInv /\ AimInv /\ ImageInv /\ CropShowsTheRegion

(* It holds at first.                                                      *)
LEMMA PointInit == Init => PointInv
<1> QED BY DEF Init, PointInv, CacheInv, SeenInv, ListInv, AimInv, ImageInv,
           CropShowsTheRegion

(* The machine and its connection keep it.                                 *)
LEMMA WorldKeepsPointInv ==
  ASSUME TypeInv, PointInv, DisplayChanges \/ Disconnects \/ Connects
  PROVE  PointInv'
<1>1. CASE DisplayChanges
  <2>1. ~ stable' /\ seen' = None /\ UNCHANGED <<call, at, pixel>>
    BY <1>1 DEF DisplayChanges, callVars
  <2> QED BY <2>1 DEF PointInv, CacheInv, SeenInv, ListInv, AimInv, ImageInv,
          CropShowsTheRegion, Previews, HasFraction
<1>2. CASE Disconnects \/ Connects
  <2>1. /\ UNCHANGED <<display, call, at, monitors, pixel, image, stable, seen>>
        /\ layout' \in {None, display}
    BY <1>2 DEF Disconnects, Connects, callVars
  <2> QED BY <2>1 DEF PointInv, CacheInv, SeenInv, ListInv, AimInv, ImageInv,
          CropShowsTheRegion, Previews, HasFraction, Pointer, Listed, Aimed, Crops, CropKeys
<1> QED BY <1>1, <1>2

(* A tool that is called has read nothing yet, and has a pixel only if it  *)
(* was given one.                                                          *)
LEMMA ToolKeepsPointInv ==
  ASSUME TypeInv, PointInv, NEW c \in Calls, Tool(c)
  PROVE  PointInv'
<1>1. /\ c \in CallType /\ call' = c /\ UNCHANGED <<display, layout, seen>>
      /\ stable' = (layout \in {None, display})
  BY CallsAssumption DEF Tool, take_screenshot, preview_click, move_mouse, click_mouse,
     Begins, worldVars
<1>2. /\ at' \notin {"done", "crop"}
      /\ at' \in {"resolve", "grab"} => ~ Listed'
      /\ at' = "grab" => c.tool = "take_screenshot"
      /\ at' = "act" => c.fx = None
  <2>1. CASE take_screenshot(c)
    BY <1>1, <2>1 DEF take_screenshot, Listed, Previews
  <2>2. CASE preview_click(c)
    BY <2>2 DEF preview_click
  <2>3. CASE move_mouse(c) \/ click_mouse(c)
    <3>1. c.tool \in {"move_mouse", "click_mouse"}
      BY <2>3 DEF move_mouse, click_mouse
    <3>2. \/ _pixel \/ resolve_xy(TRUE) \/ resolve_xy(FALSE)
          \/ at' = "failed"
          \/ at' = "act" /\ c.fx = None
      BY <2>3 DEF move_mouse, click_mouse
    <3>3. CASE resolve_xy(TRUE)
      BY <1>1, <3>1, <3>3, ResolveXyTypes DEF Listed, Previews
    <3>4. CASE resolve_xy(FALSE)
      BY <1>1, <3>1, <3>4, ResolveXyTypes DEF Listed, Previews
    <3>5. CASE _pixel
      BY <1>1, <3>1, <3>5, PixelTypes DEF Listed, Previews
    <3> QED BY <1>1, <3>1, <3>2, <3>3, <3>4, <3>5 DEF Listed, Previews
  <2> QED BY <2>1, <2>2, <2>3 DEF Tool
<1>3. CacheInv' /\ SeenInv'
  BY <1>1 DEF PointInv, CacheInv, SeenInv
<1>4. ListInv' /\ AimInv' /\ ImageInv' /\ CropShowsTheRegion'
  BY <1>1, <1>2 DEF ListInv, AimInv, ImageInv, CropShowsTheRegion, Previews, Pointer, HasFraction
<1> QED BY <1>3, <1>4 DEF PointInv

(* The picture that is taken for a monitor is of that monitor.             *)
LEMMA GrabShows ==
  ASSUME TypeInv, ListInv, at = "grab", stable, Grabbed \in 0..Len(display) - 1,
         call.by = "mcp" => Previews \/ call.monitor # None
  PROVE  /\ InRange(display, call.monitor)
         /\ display[Grabbed + 1] = resolve_monitor(display, call.monitor)
<1>1. /\ call \in CallType /\ display \in Layouts /\ Len(display) \in Nat
      /\ call.tool = "take_screenshot" \/ Previews
  BY CallsAssumption, LayoutsAssumption DEF TypeInv, TypeOK, CallInv, Awaits
<1>2. CASE call.by = "automation"
  <2>1. monitors = display /\ InRange(display, call.monitor)
    BY <1>1, <1>2 DEF ListInv, TypeInv, CallInv, Listed
  <2>2. Position(display, call.monitor) \in Int
    BY <1>1, <2>1, MonitorThere DEF CallType
  <2>3. Grabbed = Position(display, call.monitor)
    BY <1>2, <2>1, <2>2, UnitAssumption DEF Grabbed, GrabIndex
  <2> QED BY <2>1, <2>3 DEF resolve_monitor
<1>3. CASE call.by = "mcp"
  <2>1. Grabbed = Index(display, call.monitor)
    <3>1. CASE Previews
      <4>1. monitors = display
        BY <1>1, <3>1 DEF ListInv, Listed
      <4>2. Index(display, call.monitor) # None
        BY <1>1, SameIndex, UnitAssumption DEF Index, default_monitor_index, CallType
      <4> QED BY <1>3, <3>1, <4>1, <4>2 DEF Grabbed, GrabIndex
    <3>2. CASE ~ Previews
      BY <1>3, <3>2 DEF Grabbed, GrabIndex, Index
    <3> QED BY <3>1, <3>2
  <2>2. Position(display, call.monitor) = Grabbed /\ InRange(display, call.monitor)
    BY <1>1, <2>1 DEF Position, InRange
  <2> QED BY <2>2 DEF resolve_monitor
<1> QED BY <1>1, <1>2, <1>3 DEF CallType

(* The awaits keep it.                                                     *)
LEMMA AwaitKeepsPointInv ==
  ASSUME TypeInv, PointInv,
         list_monitors \/ resolve_fraction \/ act \/ grab \/ take_crop \/ request_fails
  PROVE  PointInv'
<1>1. /\ call' = call /\ call \in CallType /\ UNCHANGED <<display, layout, stable>>
      /\ display \in Layouts
  BY CallsAssumption DEF list_monitors, resolve_fraction, act, grab, take_crop, request_fails,
     Fails, worldVars, TypeInv, TypeOK, Awaits
<1>2. CASE at' = "failed" /\ UNCHANGED seen
  BY <1>1, <1>2 DEF PointInv, CacheInv, SeenInv, ListInv, AimInv, ImageInv, CropShowsTheRegion
<1>3. CASE list_monitors /\ at' # "failed"
  <2>1. /\ at = "list" /\ Listed /\ monitors' = layout /\ UNCHANGED seen
        /\ at' \in {"resolve", "grab"}
        /\ at' = "grab" =>
             \/ call.tool = "take_screenshot"
             \/ /\ call.fx = None
                /\ pixel' = [x |-> call.x, y |-> call.y] /\ pixel' \in Pixel
    <3>1. /\ at = "list" /\ Listed /\ monitors' = layout /\ UNCHANGED seen
          /\ IF call.tool = "take_screenshot" THEN at' = "grab" /\ pixel' = None
             ELSE IF call.by = "automation" THEN _pixel
             ELSE resolve_xy(FALSE)
      BY <1>3 DEF list_monitors, Fails, TypeInv, CallInv
    <3>2. CASE call.tool = "take_screenshot"
      BY <3>1, <3>2
    <3>3. CASE call.tool # "take_screenshot" /\ call.by = "automation"
      BY <1>3, <3>1, <3>3, PixelTypes
    <3>4. CASE call.tool # "take_screenshot" /\ call.by # "automation"
      <4>1. resolve_xy(FALSE) /\ call' \in CallType
        BY <1>1, <3>1, <3>4
      <4>2. at' \in {"resolve", "grab"} /\ (at' = "grab" => call.fx = None)
        BY <1>1, <1>3, <3>1, <3>4, <4>1, ResolveXyTypes DEF Listed, Previews
      <4>3. at' = "grab" => pixel' = [x |-> call.x, y |-> call.y] /\ pixel' \in Pixel
        BY <1>1, <4>1, ResolveXyPixel
      <4> QED BY <3>1, <4>2, <4>3
    <3> QED BY <3>1, <3>2, <3>3, <3>4
  <2>2. CacheInv' /\ SeenInv' /\ ListInv'
    <3>1. layout # None
      BY <1>3 DEF list_monitors, Fails
    <3> QED BY <1>1, <2>1, <3>1 DEF PointInv, CacheInv, SeenInv, ListInv
  <2>3. AimInv' /\ ImageInv' /\ CropShowsTheRegion'
    BY <1>1, <2>1 DEF AimInv, ImageInv, CropShowsTheRegion, Previews, Pointer, HasFraction
  <2> QED BY <2>2, <2>3 DEF PointInv
<1>4. CASE resolve_fraction /\ at' # "failed"
  <2>1. /\ at = "resolve" /\ at' \in {"grab", "act"} /\ UNCHANGED <<monitors, seen>>
        /\ pixel' = fraction_to_pixel(resolve_monitor(layout, TargetIndex), call.fx, call.fy)
    BY <1>4 DEF resolve_fraction, Fails, Then
  <2>2. stable => resolve_monitor(layout, TargetIndex) = resolve_monitor(display, call.monitor)
    <3>1. stable => layout = display /\ (Listed => monitors = display)
      <4>1. layout # None
        BY <1>4 DEF resolve_fraction, Fails
      <4> QED BY <2>1, <4>1 DEF PointInv, CacheInv, ListInv
    <3> QED BY <1>1, <3>1, SameIndex DEF TargetIndex, Listed, CallType
  <2>3. AimInv'
    <3>1. call.fx \in Int /\ call.fy \in Int /\ HasFraction
      BY <2>1, UnitAssumption DEF TypeInv, CallInv, HasFraction
    <3>2. pixel' \in Pixel
      <4>1. layout \in Layouts /\ InRange(layout, TargetIndex)
        BY <1>4 DEF resolve_fraction, Fails, TypeInv, TypeOK
      <4>2. TargetIndex \in Coordinate
        BY <1>1, <2>1, SameIndex DEF TargetIndex, TypeInv, CallInv, Listed, CallType
      <4> QED BY <2>1, <3>1, <4>1, <4>2, MonitorThere, PixelType
    <3> QED BY <1>1, <2>1, <2>2, <3>1, <3>2 DEF AimInv, Aimed, HasFraction, Previews, Pointer
  <2>4. CacheInv' /\ SeenInv' /\ ListInv' /\ ImageInv' /\ CropShowsTheRegion'
    BY <1>1, <2>1 DEF PointInv, CacheInv, SeenInv, ListInv, Listed, Previews, ImageInv,
       CropShowsTheRegion
  <2> QED BY <2>3, <2>4 DEF PointInv
<1>5. CASE act /\ at' # "failed"
  <2>1. at = "act" /\ at' = "done" /\ Pointer /\ UNCHANGED <<pixel, seen>>
    BY <1>5 DEF act, TypeInv, CallInv
  <2>2. ~ Listed /\ ~ Previews /\ ~ Crops
    BY <2>1 DEF Pointer, Listed, Previews, Crops
  <2>3. CacheInv' /\ SeenInv' /\ AimInv'
    BY <1>1, <2>1 DEF PointInv, CacheInv, SeenInv, AimInv, Pointer, Previews, HasFraction, Aimed
  <2>4. ListInv' /\ ImageInv' /\ CropShowsTheRegion'
    BY <1>1, <2>1, <2>2
       DEF ListInv, Listed, ImageInv, Previews, CropShowsTheRegion, Crops, CropKeys
  <2> QED BY <2>3, <2>4 DEF PointInv
<1>6. CASE grab /\ at' # "failed"
  <2>1. /\ at = "grab" /\ Grabbed \in 0..Len(display) - 1 /\ image' = display[Grabbed + 1]
        /\ \/ Crops /\ at' = "crop" /\ UNCHANGED seen
           \/ ~ Crops /\ at' = "done" /\ Remember(image')
        /\ UNCHANGED <<monitors, pixel>>
    BY <1>6 DEF grab, Fails
  <2>2. stable /\ (call.by = "mcp" => Previews \/ call.monitor # None) =>
          InRange(display, call.monitor) /\ image' = resolve_monitor(display, call.monitor)
    BY <2>1, GrabShows DEF PointInv
  <2>3. CacheInv'
    BY <1>1, <2>1 DEF PointInv, CacheInv, Remember
  <2>4. SeenInv'
    <3>1. CASE UNCHANGED seen \/ seen' = None
      BY <1>1, <3>1 DEF PointInv, SeenInv
    <3>2. CASE stable /\ seen' = [by |-> call.by, monitor |-> call.monitor, shows |-> image']
      BY <1>1, <2>2, <3>2 DEF SeenInv
    <3> QED BY <2>1, <3>1, <3>2 DEF Remember
  <2>5. ListInv' /\ AimInv'
    BY <1>1, <2>1 DEF PointInv, ListInv, Listed, Previews, AimInv, Pointer, HasFraction, Aimed
  <2>6. ImageInv'
    BY <1>1, <2>1, <2>2 DEF ImageInv, Previews
  <2>7. CropShowsTheRegion'
    BY <1>1, <2>1 DEF CropShowsTheRegion, Crops, CropKeys
  <2> QED BY <2>3, <2>4, <2>5, <2>6, <2>7 DEF PointInv
<1>7. CASE take_crop /\ at' # "failed"
  <2>1. /\ at = "crop" /\ Crops /\ InRange(layout, call.monitor) /\ layout \in Layouts
        /\ at' = "done" /\ UNCHANGED seen
        /\ image' = crop(image, Round(call.fx1 * CropTarget.width),
                         Round(call.fy1 * CropTarget.height),
                         Round(call.fx2 * CropTarget.width),
                         Round(call.fy2 * CropTarget.height))
    BY <1>7 DEF take_crop, Fails, TypeInv, TypeOK, CallInv
  <2>2. ~ Listed /\ ~ Previews /\ ~ Pointer
    BY <2>1 DEF Pointer, Listed, Previews, Crops
  <2>3. CropShowsTheRegion'
    <3> SUFFICES ASSUME stable, call.monitor # None PROVE CropShowsTheRegion'
      BY <1>1 DEF CropShowsTheRegion
    <3> DEFINE m == resolve_monitor(display, call.monitor)
    <3>1. layout = display /\ image = m /\ CropTarget = m
      BY <2>1, NoneIsNoData DEF PointInv, CacheInv, ImageInv, CropTarget
    <3>2. m \in Box
      BY <1>1, <2>1, <3>1, MonitorThere DEF CallType
    <3>3. {call.fx1, call.fy1, call.fx2, call.fy2} \subseteq Int
      BY <1>1, <2>1 DEF TypeInv, CallInv, CropKeys, CallType, Coordinate
    <3> HIDE DEF m
    <3>4. \A f \in Int : Round(f * m.width) \in Int /\ Round(f * m.height) \in Int
      BY <3>2, RoundInt DEF Box
    <3> DEFINE x1 == Round(call.fx1 * m.width)
               y1 == Round(call.fy1 * m.height)
               x2 == Round(call.fx2 * m.width)
               y2 == Round(call.fy2 * m.height)
    <3>5. /\ x1 \in Int /\ y1 \in Int /\ x2 \in Int /\ y2 \in Int
          /\ m.left \in Int /\ m.width \in Nat \ {0}
          /\ m.top \in Int /\ m.height \in Nat \ {0}
      BY <3>2, <3>3, <3>4 DEF Box
    <3>6. /\ fraction_to_pixel(m, call.fx1, call.fy1) = [x |-> m.left + x1, y |-> m.top + y1]
          /\ fraction_to_pixel(m, call.fx2, call.fy2) = [x |-> m.left + x2, y |-> m.top + y2]
          /\ image' = crop(m, x1, y1, x2, y2)
      BY <2>1, <3>1 DEF fraction_to_pixel
    <3> HIDE DEF x1, y1, x2, y2
    <3>7. image' = Intersection(m, m.left + x1, m.top + y1, m.left + x2, m.top + y2)
      <4>1. crop(m, x1, y1, x2, y2) =
              Intersection(m, m.left + x1, m.top + y1, m.left + x2, m.top + y2)
        BY <3>2, <3>5, CropCuts
      <4> QED BY <3>6, <4>1
    <3>8. /\ call' = call /\ display' = display
          /\ image' = Intersection(m, fraction_to_pixel(m, call.fx1, call.fy1).x,
                                     fraction_to_pixel(m, call.fx1, call.fy1).y,
                                     fraction_to_pixel(m, call.fx2, call.fy2).x,
                                     fraction_to_pixel(m, call.fx2, call.fy2).y)
      BY <1>1, <3>6, <3>7
    <3> QED BY <3>8 DEF CropShowsTheRegion, Intersection, m
  <2>4. CacheInv' /\ SeenInv' /\ ListInv' /\ AimInv' /\ ImageInv'
    BY <1>1, <2>1, <2>2
       DEF PointInv, CacheInv, SeenInv, ListInv, Listed, AimInv, Pointer, ImageInv, Previews
  <2> QED BY <2>3, <2>4 DEF PointInv
<1>8. at' = "failed" /\ ~ act => UNCHANGED seen
  BY DEF list_monitors, resolve_fraction, grab, take_crop, request_fails, Fails
<1>9. act => UNCHANGED seen
  BY DEF act
<1>10. request_fails => at' = "failed"
  BY DEF request_fails, Fails
<1> QED BY <1>2, <1>3, <1>4, <1>5, <1>6, <1>7, <1>8, <1>9, <1>10

(* With the types it is inductive.                                         *)
LEMMA PointInvariant == Spec => []PointInv
<1>1. TypeInv /\ PointInv /\ [Next]_vars => PointInv'
  <2> SUFFICES ASSUME TypeInv, PointInv, [Next]_vars PROVE PointInv'
    OBVIOUS
  <2>1. CASE UNCHANGED vars
    BY <2>1 DEF vars, worldVars, callVars, PointInv, CacheInv, SeenInv, ListInv, AimInv,
       ImageInv, CropShowsTheRegion, Listed, Previews, Pointer, HasFraction, Aimed,
       Crops, CropKeys
  <2> QED BY <2>1, WorldKeepsPointInv, ToolKeepsPointInv, AwaitKeepsPointInv DEF Next
<1> QED BY <1>1, PointInit, TypeInvariant, PTL DEF Spec

-----------------------------------------------------------------------------
(* A click at a fraction measured on the last picture of a monitor hits    *)
(* what was there (server.py and tools.py, the awaits of a click and of a  *)
(* picture), for every layout and every fraction, also outside 0.0 to 1.0. *)
THEOREM ClicksHit == Spec => []HitsWhatItSaw
<1>1. PointInv => HitsWhatItSaw
  BY DEF PointInv, SeenInv, AimInv, HitsWhatItSaw, Clicked, SameMonitor, SeenPixel, Aimed,
     Pointer
<1> QED BY <1>1, PointInvariant, PTL

(* A crop of a monitor shows what clicks at the same fractions would find  *)
(* (server.py, take_screenshot), for every layout and every region.        *)
THEOREM CropsRight == Spec => []CropShowsTheRegion
<1> QED BY PointInvariant, PTL DEF PointInv

(* A preview that is returned: its picture and its marker.                 *)
LEMMA PreviewMarks ==
  ASSUME TypeInv, PointInv, at = "done", Previews, stable,
         NEW m, m = resolve_monitor(display, call.monitor)
  PROVE  /\ call \in CallType /\ m \in Box /\ pixel \in Pixel
         /\ pixel = IF HasFraction THEN Aimed ELSE [x |-> call.x, y |-> call.y]
         /\ MarkerOnScreen.x = Nearest(pixel.x, m.left, m.width)
         /\ MarkerOnScreen.y = Nearest(pixel.y, m.top, m.height)
<1>1. call \in CallType /\ display \in Layouts /\ Listed
  BY CallsAssumption DEF TypeInv, TypeOK, CallInv, Listed
<1>2. monitors = display /\ image = m /\ InRange(display, call.monitor)
  BY <1>1 DEF PointInv, ListInv, ImageInv
<1>3. m \in Box
  BY <1>1, <1>2, MonitorThere DEF CallType
<1>4. pixel = (IF HasFraction THEN Aimed ELSE [x |-> call.x, y |-> call.y]) /\ pixel \in Pixel
  BY DEF PointInv, AimInv
<1>5. /\ MarkerOnScreen.x = m.left + Clamp(pixel.x - m.left, m.width)
      /\ MarkerOnScreen.y = m.top + Clamp(pixel.y - m.top, m.height)
  BY <1>2 DEF MarkerOnScreen, draw_crosshair
<1>6. MarkerOnScreen.x = Nearest(pixel.x, m.left, m.width)
  BY <1>3, <1>4, <1>5 DEF Box, Pixel, Clamp, Nearest
<1>7. MarkerOnScreen.y = Nearest(pixel.y, m.top, m.height)
  BY <1>3, <1>4, <1>5 DEF Box, Pixel, Clamp, Nearest
<1> QED BY <1>1, <1>3, <1>4, <1>6, <1>7

(* A preview's marker is exactly where the click would be, or on the       *)
(* nearest pixel of the picture when the click would be outside it, for    *)
(* every layout, fraction and pixel (server.py, preview_click; tools.py;   *)
(* geometry.py, draw_crosshair).                                           *)
THEOREM PreviewsRight == Spec => []PreviewShowsTheClick
<1>1. TypeInv /\ PointInv => PreviewShowsTheClick
  BY PreviewMarks DEF PreviewShowsTheClick
<1> QED BY <1>1, TypeInvariant, PointInvariant, PTL

(* What that is for a fraction of 0.0 to 1.0, in one coordinate.           *)
Off(f, marker, hit, edge) ==
  /\ marker = hit \/ (hit = edge /\ marker = hit - 1)
  /\ f = Unit => hit = edge /\ marker = hit - 1

(* "A dot exactly on it" (docs/MCP_SERVER.md) is true of the fractions     *)
(* from 0.0 to 1.0 but for those that round to the pixel after the last,   *)
(* which is not on the monitor any more and may be on the next one; there  *)
(* the marker is one pixel short of the click, and at 1.0 that is so       *)
(* always, on every monitor (geometry.py, fraction_to_pixel,               *)
(* draw_crosshair).                                                        *)
EdgesAreOff ==
  at = "done" /\ Previews /\ stable /\ call.fx \in 0..Unit /\ call.fy \in 0..Unit =>
    LET m == resolve_monitor(display, call.monitor)
    IN /\ Off(call.fx, MarkerOnScreen.x, Aimed.x, m.left + m.width)
       /\ Off(call.fy, MarkerOnScreen.y, Aimed.y, m.top + m.height)

THEOREM PreviewsOffAtEdges == Spec => []EdgesAreOff
<1>1. ASSUME TypeInv, PointInv, at = "done", Previews, stable,
             call.fx \in 0..Unit, call.fy \in 0..Unit,
             NEW m, m = resolve_monitor(display, call.monitor)
      PROVE  /\ Off(call.fx, MarkerOnScreen.x, Aimed.x, m.left + m.width)
             /\ Off(call.fy, MarkerOnScreen.y, Aimed.y, m.top + m.height)
  <2> DEFINE rx == Round(call.fx * m.width)
             ry == Round(call.fy * m.height)
  <2>1. HasFraction /\ call.fx \in Int /\ call.fy \in Int
    BY <1>1, UnitAssumption DEF HasFraction
  <2>2. /\ m \in Box /\ pixel = Aimed
        /\ MarkerOnScreen.x = Nearest(pixel.x, m.left, m.width)
        /\ MarkerOnScreen.y = Nearest(pixel.y, m.top, m.height)
    BY <1>1, <2>1, PreviewMarks
  <2>3. Aimed.x = m.left + rx /\ Aimed.y = m.top + ry
    BY <1>1, <2>1, <2>2, PixelType DEF Aimed
  <2>4. /\ rx \in 0..m.width /\ ry \in 0..m.height
        /\ call.fx = Unit => rx = m.width
        /\ call.fy = Unit => ry = m.height
    BY <1>1, <2>2, RoundInside DEF Box
  <2>5. /\ m.left \in Int /\ m.width \in Nat \ {0}
        /\ m.top \in Int /\ m.height \in Nat \ {0}
    BY <2>2 DEF Box
  <2> HIDE DEF rx, ry
  <2>6. Off(call.fx, MarkerOnScreen.x, Aimed.x, m.left + m.width)
    BY <2>2, <2>3, <2>4, <2>5 DEF Nearest, Off
  <2>7. Off(call.fy, MarkerOnScreen.y, Aimed.y, m.top + m.height)
    BY <2>2, <2>3, <2>4, <2>5 DEF Nearest, Off
  <2> QED BY <2>6, <2>7
<1>2. TypeInv /\ PointInv => EdgesAreOff
  BY <1>1 DEF EdgesAreOff
<1> QED BY <1>2, TypeInvariant, PointInvariant, PTL

-----------------------------------------------------------------------------
(* How far a fraction of the image is right.                               *)

(* The monitor that the thin client takes a picture of when the request    *)
(* names none, if it is there, is the one that a click is for when the     *)
(* call names none.                                                        *)
DefaultsAgree ==
  \A l \in Layouts : DefaultMonitor < Len(l) =>
    l[DefaultMonitor + 1] = resolve_monitor(l, None)

(* It is so for every layout if the thin client is configured to take      *)
(* pictures of monitor 1.                                                  *)
LEMMA PrimaryAgrees == DefaultMonitor = 1 => DefaultsAgree
<1> SUFFICES ASSUME DefaultMonitor = 1, NEW l \in Layouts, 1 < Len(l)
             PROVE  l[2] = resolve_monitor(l, None)
  BY DEF DefaultsAgree
<1>1. Position(l, None) = 1
  BY DEF Position, Index, default_monitor_index
<1> QED BY <1>1 DEF resolve_monitor

SeenAnyInv == seen # None => seen.shows = resolve_monitor(display, seen.monitor)

(* Then what was seen last is the monitor that its call named, or the      *)
(* default one, whoever took the picture.                                  *)
LEMMA AgreementStep ==
  ASSUME DefaultsAgree, TypeInv, PointInv, SeenAnyInv, [Next]_vars
  PROVE  SeenAnyInv'
<1>1. CASE UNCHANGED <<display, seen>> \/ seen' = None
  BY <1>1 DEF SeenAnyInv
<1>2. CASE grab /\ seen' # seen /\ seen' # None
  <2>1. /\ at = "grab" /\ Grabbed \in 0..Len(display) - 1 /\ image' = display[Grabbed + 1]
        /\ display' = display /\ stable
        /\ seen' = [by |-> call.by, monitor |-> call.monitor, shows |-> image']
    BY <1>2 DEF grab, worldVars, Remember
  <2>2. /\ call \in CallType /\ display \in Layouts /\ Len(display) \in Nat
        /\ call.tool = "take_screenshot" \/ Previews
    BY <2>1, CallsAssumption, LayoutsAssumption DEF TypeInv, TypeOK, CallInv, Awaits
  <2>3. image' = resolve_monitor(display, call.monitor)
    <3>1. CASE call.by = "mcp" => Previews \/ call.monitor # None
      BY <2>1, <3>1, GrabShows DEF PointInv
    <3>2. CASE call.by = "mcp" /\ ~ Previews /\ call.monitor = None
      <4>1. Grabbed = DefaultMonitor
        BY <3>2 DEF Grabbed, GrabIndex
      <4>2. DefaultMonitor < Len(display)
        BY <2>1, <2>2, <4>1, DefaultAssumption
      <4> QED BY <2>1, <2>2, <3>2, <4>1, <4>2 DEF DefaultsAgree
    <3> QED BY <3>1, <3>2
  <2> QED BY <2>1, <2>3 DEF SeenAnyInv
<1>3. [Next]_vars => UNCHANGED <<display, seen>> \/ seen' = None \/ grab
  BY DEF Next, DisplayChanges, Disconnects, Connects, Tool, take_screenshot, preview_click,
     move_mouse, click_mouse, Begins, list_monitors, resolve_fraction, act, take_crop,
     request_fails, worldVars, vars
<1>4. grab => display' = display
  BY DEF grab, worldVars
<1> QED BY <1>1, <1>2, <1>3, <1>4

(* "A fraction of the image is correct" (docs/MCP_SERVER.md) for every     *)
(* pair of calls that name the same monitor or none, if the defaults of    *)
(* the thin client and of geometry.py agree, as they do when the thin      *)
(* client's is monitor 1: what the document says is missing is no more     *)
(* than that (server.py, take_screenshot, click_mouse; capture.py).        *)
THEOREM FractionsHold == DefaultsAgree => (Spec => []FractionOfTheImage)
<1> SUFFICES ASSUME DefaultsAgree PROVE Spec => []FractionOfTheImage
  OBVIOUS
<1>1. Init => SeenAnyInv
  BY DEF Init, SeenAnyInv
<1>2. TypeInv /\ PointInv /\ SeenAnyInv /\ [Next]_vars => SeenAnyInv'
  BY AgreementStep
<1>3. PointInv /\ SeenAnyInv => FractionOfTheImage
  BY DEF PointInv, SeenAnyInv, AimInv, FractionOfTheImage, Clicked, SameMonitor, SeenPixel,
     Aimed, Pointer
<1> QED BY <1>1, <1>2, <1>3, TypeInvariant, PointInvariant, PTL DEF Spec

(* The same, for a thin client that is configured so.                      *)
THEOREM PrimaryConfigured == DefaultMonitor = 1 => (Spec => []FractionOfTheImage)
BY PrimaryAgrees, FractionsHold
=============================================================================
