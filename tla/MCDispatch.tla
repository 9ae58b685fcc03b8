----------------------------- MODULE MCDispatch -----------------------------
(***************************************************************************)
(* Model checking of Dispatch: values for Stimuli, which a .cfg cannot     *)
(* spell as tuples.                                                        *)
(***************************************************************************)
EXTENDS Dispatch

\* A library with callbacks of both kinds for every activity, or of one kind.
BothKinds == {<<"now">>, <<"late">>, <<"now", "late">>}
OnlyNow   == {<<"now">>}
OneKind   == {<<"now">>, <<"late">>}
=============================================================================
