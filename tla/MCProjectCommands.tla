------------------------- MODULE MCProjectCommands --------------------------
(***************************************************************************)
(* A project of a track that has an item, a point, an effect and a send to *)
(* itself, and of a marker, edited by three commands; tracks may be added. *)
(***************************************************************************)
EXTENDS ProjectCommands

MCStart ==
    [tracks  |-> <<[NewTrack(1) EXCEPT !.items  = <<NewItem(2)>>,
                                       !.points = <<[time |-> 2, added |-> FALSE]>>,
                                       !.fx     = <<FALSE>>,
                                       !.sends  = <<1>>]>>,
     markers |-> {[number |-> 1, region |-> FALSE]}]
=============================================================================
