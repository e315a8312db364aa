------------------------------ MODULE MCSession ------------------------------
(***************************************************************************)
(* REAPERs that lack one function each, with the default file; the one of  *)
(* another version; and one with the six functions that are required,      *)
(* whose user tries out files: each kind of line, alone and after another  *)
(* of its key.                                                             *)
(***************************************************************************)
EXTENDS Session

PortLine(n) == [key |-> "port", value |-> NumberText(n)]
Localhost   == [key |-> "bind", value |-> AddressText(127, "127.0.0.1")]
JunkPort    == [key |-> "port", value |-> [number |-> <<>>, address |-> <<>>]]
JunkBind    == [key |-> "bind", value |-> [number |-> <<>>, address |-> <<>>]]
OtherLine   == [key |-> "other", value |-> NumberText(1)]
Comment     == [key |-> "none", value |-> NumberText(2)]

MCFiles ==
    {<<>>} \cup {<<f>> : f \in
        {<<>>, <<Comment, OtherLine>>,
         <<PortLine(8000), Localhost>>, <<PortLine(8000), PortLine(8001)>>,
         <<PortLine(8000), JunkPort>>, <<JunkPort>>,
         <<PortLine(65535)>>, <<PortLine(65536)>>, <<PortLine(70000)>>, <<PortLine(-1)>>,
         <<JunkBind>>, <<Localhost, JunkBind>>,
         <<JunkBind, Localhost, OtherLine>>}}

MCInstallations ==
    {[version |-> TRUE, lacks |-> {fn}, files |-> {<<DefaultFile>>}]
        : fn \in Functions}
    \cup {[version |-> TRUE, lacks |-> {}, files |-> {<<>>}],
          [version |-> TRUE, lacks |-> Optional, files |-> MCFiles],
          [version |-> FALSE, lacks |-> {}, files |-> {<<>>}]}
=============================================================================
