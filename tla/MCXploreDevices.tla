---------------------------- MODULE MCXploreDevices ---------------------------
(* Small instances of XploreDevices: the mount point in the tree pane with a  *)
(* subdirectory, and a shelf.                                                 *)
EXTENDS XploreDevices

CONSTANTS tree, sub, shelf

MCDirs == {tree, sub, shelf}
MCParent == [x \in MCDirs |-> IF x = sub THEN tree ELSE x]
=============================================================================
