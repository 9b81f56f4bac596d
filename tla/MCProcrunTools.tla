--------------------------- MODULE MCProcrunTools ---------------------------
(* Two commands; a command beside the sheet, and beside the icon, of a      *)
(* monitor; the sheet alone, edited twice; the progress box; two monitors,  *)
(* alone with and without --AllowMultiInstances and both beside a delete.   *)
EXTENDS ProcrunTools

CONSTANTS c1, c2, m1, m2

Line(k, g) == [kind |-> k, given |-> g]
Quiet == [cast |-> {}, lines |-> {}, modes |-> {}, edits |-> 0, boxes |-> 0, sheets |-> 0,
          several |-> {FALSE}]

MCLines == {Line("install", {"Params"}), Line("update", {"Description"}), Line("update", {"Params"}),
            Line("delete", {}), Line("start", {}), Line("stop", {})}

MCScenes == {
  [Quiet EXCEPT !.cast = {c1, c2}, !.lines = MCLines],
  [Quiet EXCEPT !.cast = {c1, m1}, !.modes = {"monitor"}, !.edits = 1, !.sheets = 1,
                !.lines = {Line("update", {"Params"}), Line("delete", {})}],
  [Quiet EXCEPT !.cast = {m1}, !.modes = {"monitor"}, !.edits = 2, !.sheets = 1],
  [Quiet EXCEPT !.cast = {c1, m1}, !.modes = {"monitor"},
                !.lines = {Line("start", {}), Line("stop", {}), Line("delete", {})}],
  [Quiet EXCEPT !.cast = {m1}, !.modes = {"monitor", "start", "manage"}, !.boxes = 1],
  [Quiet EXCEPT !.cast = {m1, m2}, !.modes = {"monitor", "quit"}, !.several = BOOLEAN],
  [Quiet EXCEPT !.cast = {c1, m1, m2}, !.modes = {"monitor"}, !.several = {TRUE},
                !.lines = {Line("delete", {})}]}
=============================================================================
