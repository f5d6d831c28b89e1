------------------------- MODULE MCBareMetalStorage -------------------------
(***************************************************************************)
(* Instance of BareMetalStorage: a layout of three directories, one of    *)
(* them below another, and paths of up to three components.                *)
(***************************************************************************)
EXTENDS BareMetalStorage

MCNoTree == <<>>
MCMounts == {"apps", "user"}
MCLayout == <<<<"apps">>, <<"user">>, <<"user", "config">>>>
MCMarker == <<"user", "config", "initialized">>
MCInitialFiles == <<<<<<"apps", "f">>, 1>>>>
MCArguments == {<<"user", "config">>, <<"apps">>, <<"apps", "f">>, <<"apps", "f", "g">>,
                <<"user", "d">>, <<"user", "d", "e">>, <<"sys", "f">>}
=============================================================================
