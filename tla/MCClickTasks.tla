---------------------------- MODULE MCClickTasks ----------------------------
(* Small instances of ClickTasks: tasks of any kinds, in any order.        *)
EXTENDS ClickTasks

AnyInput == [Tasks -> Kinds]
=============================================================================
