----------------------------- MODULE MCPointing -----------------------------
(* A small instance of Pointing for TLC.                                   *)
EXTENDS Pointing

Area(left, top, width, height) ==
  [left |-> left, top |-> top, width |-> width, height |-> height]

(* One monitor; a second one to its right, smaller; and one to its left,   *)
(* with negative coordinates.                                              *)
SomeLayouts ==
  {<<Area(0, 0, 4, 3), Area(0, 0, 4, 3)>>,
   <<Area(0, 0, 7, 3), Area(0, 0, 4, 3), Area(4, 0, 3, 2)>>,
   <<Area(-3, 0, 7, 3), Area(0, 0, 4, 3), Area(-3, 0, 3, 2)>>}

Plain ==
  [by |-> "mcp", tool |-> "take_screenshot", x |-> None, y |-> None,
   fx |-> None, fy |-> None, monitor |-> None, relative |-> FALSE,
   fx1 |-> None, fy1 |-> None, fx2 |-> None, fy2 |-> None]

Monitors == {None, 1, 2, -1}

Pictures == {[Plain EXCEPT !.by = b, !.monitor = m] :
               b \in {"mcp", "automation"}, m \in Monitors}

(* A region, one that is empty, one that is too small for a pixel, one     *)
(* that is not complete, two partly outside and one that is all outside.   *)
Regions ==
  {<<1, 0, 4, 3>>, <<3, 1, 1, 4>>, <<2, 2, 2, 3>>, <<1, None, 3, 4>>,
   <<3, 2, 6, 5>>, <<-2, -1, 2, 2>>, <<5, 1, 7, 3>>}
Crops_ == {[Plain EXCEPT !.monitor = m, !.fx1 = r[1], !.fy1 = r[2], !.fx2 = r[3], !.fy2 = r[4]] :
             m \in Monitors, r \in Regions}

(* Fractions inside, at the edges, halves that round up and down, one past *)
(* 1.0; pixels; and arguments that do not go together.                     *)
Points ==
  {[Plain EXCEPT !.fx = f[1], !.fy = f[2]] :
     f \in {<<0, 0>>, <<2, 2>>, <<3, 1>>, <<4, 4>>, <<5, 2>>, <<1, None>>}}
  \cup {[Plain EXCEPT !.x = p[1], !.y = p[2]] : p \in {<<1, 1>>, <<5, 1>>, <<None, 1>>}}
  \cup {Plain, [Plain EXCEPT !.x = 1, !.y = 1, !.fx = 2, !.fy = 2]}

Aims == {[p EXCEPT !.tool = t, !.monitor = m] :
           p \in Points, t \in {"preview_click", "move_mouse", "click_mouse"}, m \in Monitors}
        \cup {[p EXCEPT !.tool = "move_mouse", !.relative = TRUE] : p \in Points}

(* The runner's tools have fractions, without a choice.                    *)
RunnersAims == {[c EXCEPT !.by = "automation"] :
                  c \in {a \in Aims : a.fx # None /\ a.fy # None /\ a.x = None /\ ~ a.relative}}

SomeCalls == Pictures \cup Crops_ \cup Aims \cup RunnersAims
=============================================================================
