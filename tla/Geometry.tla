------------------------------ MODULE Geometry ------------------------------
(***************************************************************************)
(* From fractions of a monitor to pixels: journeydrive_mcp/geometry.py,    *)
(* which the MCP server and the automation runner share.                   *)
(*                                                                         *)
(* A fraction is a whole number of units, Unit of them being 1.0.  Python  *)
(* computes with binary floats; the model with exact quotients, rounded as *)
(* round does, halves to even.  A list of monitors is indexed from 0.      *)
(*                                                                         *)
(* A definition named X_Y is X with a bug Y, which the properties that use *)
(* X must tell from it.                                                    *)
(***************************************************************************)
EXTENDS Integers, Sequences

CONSTANTS Unit, None

ASSUME UnitAssumption == Unit \in Nat \ {0} /\ None \notin Int

Pixel == [x : Int, y : Int]
Box == [left : Int, top : Int, width : Nat \ {0}, height : Nat \ {0}]

(* n units, as a number of pixels.                                         *)
Round(n) ==
  LET q == n \div Unit
      r == n % Unit
  IN IF 2 * r < Unit \/ (2 * r = Unit /\ q % 2 = 0) THEN q ELSE q + 1

(* The primary monitor when there is one, else the box of all monitors.    *)
default_monitor_index(monitors) == IF Len(monitors) > 1 THEN 1 ELSE 0

(* The index asked for, and what a list has there: a negative index counts *)
(* from the end of the list, any other outside it is an error.             *)
Index(monitors, i) == IF i = None THEN default_monitor_index(monitors) ELSE i
InRange(monitors, i) ==
  Index(monitors, i) \in -Len(monitors)..Len(monitors) - 1
Position(monitors, i) ==
  IF Index(monitors, i) < 0 THEN Len(monitors) + Index(monitors, i)
  ELSE Index(monitors, i)

resolve_monitor(monitors, i) == monitors[Position(monitors, i) + 1]

fraction_to_pixel(m, fx, fy) ==
  [x |-> m.left + Round(fx * m.width), y |-> m.top + Round(fy * m.height)]

(* Where draw_crosshair puts the marker: inside the picture.               *)
Clamp_FromOne(v, size) == IF v < 1 THEN 0 ELSE IF v > size THEN size - 1 ELSE v - 1

Clamp(v, size) == IF v < 0 THEN 0 ELSE IF v > size - 1 THEN size - 1 ELSE v

draw_crosshair(image, x, y) ==
  [x |-> Clamp(x, image.width), y |-> Clamp(y, image.height)]

(* The part of the screen that is left when PIL cuts a region out of a     *)
(* picture; what is outside the picture is black.  None, if it is all.     *)
Cut(v, size) == IF v < 0 THEN 0 ELSE IF v > size THEN size ELSE v

crop(image, x1, y1, x2, y2) ==
  LET left == Cut(x1, image.width)
      top == Cut(y1, image.height)
      right == Cut(x2, image.width)
      bottom == Cut(y2, image.height)
  IN IF right <= left \/ bottom <= top THEN None
     ELSE [left |-> image.left + left, top |-> image.top + top,
           width |-> right - left, height |-> bottom - top]
=============================================================================
