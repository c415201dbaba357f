-------------------------------- MODULE MCCurl --------------------------------
(* A program uses libcurl in one of two ways: it drives several transfers  *)
(* with a multi handle, or it has HttpClient objects.  The variables of    *)
(* the other way keep their initial values.  Maps and URLs hold every      *)
(* character that means something, and empty strings.                      *)
EXTENDS CurlMulti, HttpClient

MCUrls == {<<97>>, <<97, 63>>, <<97, 63, 98, 61, 99>>, <<97, 35, 98>>}
MCMaps == {<<>>, <<<<<<>>, <<97>>>>>>, <<<<<<38>>, <<61, 37>>>>, <<<<97>>, <<>>>>>>,
           <<<<<<35>>, <<63>>>>, <<<<97, 61>>, <<97>>>>, <<<<98>>, <<38, 98>>>>>>}
MCUnreserved == {97, 98, 99}

VARIABLE uses

CurlInit == uses \in {"multi", "HttpClient"} /\ Init /\ HttpInit

MultiNext(Step) == uses = "multi" /\ Step /\ UNCHANGED <<uses, objects>>

CurlNext ==
    \/ MultiNext(Next)
    \/ uses = "HttpClient" /\ HttpNext /\ UNCHANGED <<uses, vars>>

CurlSpec ==
    /\ CurlInit /\ [][CurlNext]_<<uses, vars, objects>>
    /\ WF_vars(MultiNext(Program)) /\ WF_vars(MultiNext(Tick))
=============================================================================
