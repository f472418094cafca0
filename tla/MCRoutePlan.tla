----------------------------- MODULE MCRoutePlan -----------------------------
(* The routing plan for TLC: a domain, every preset, an entry that stands  *)
(* for the list of a combo, one that reads as the advertising list once    *)
(* its colon is a dash, two that read as each other, one the code must     *)
(* refuse, two spellings of a process that a combo names too.              *)
EXTENDS RoutePlan

MCDomains == {<<"domain", "d">>}

MCGeoInputs ==
    Presets \cup
    {Telegram, <<"geosite", <<"category", "-", "ads", ":", "all">> >>,
     <<"geosite", <<"a", ":", "b">> >>, <<"geosite", <<"a", "-", "b">> >>,
     <<"plain", <<"google">> >>}

MCProcessInputs == {<<"telegram", "lower">>, <<"telegram", "mixed">>}
=============================================================================
