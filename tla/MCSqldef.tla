------------------------------ MODULE MCSqldef ------------------------------
(* Placeholders for Sqldef.                                                *)
EXTENDS Sqldef

MCPlaceholder == <<"ph1", "ph2", "ph3", "ph4">>
=============================================================================
