---------------------------- MODULE MCLspClient ----------------------------
(* Small instances of LspClient for TLC. *)
EXTENDS LspClient

CONSTANTS here, there, first, second

\* Two calls share the first project's server; the third evicts it.
AsksOfEach ==
  first :> << <<"lookup", here>>, <<"lookup", there>> >> @@ second :> << <<"diagnostics", here>> >>

\* Some call for diagnostics is to come or under way.
DiagnosticsAsked ==
  \E c \in Callers :
    op[c] = "diagnostics" \/ \E n \in (calls[c] + 1)..Len(Asks[c]) : Asks[c][n][1] = "diagnostics"

\* Left out: an edit no call will read, and diagnostics no call will look at.
OnlyWhatIsRead ==
  /\ disk' # disk => \E c \in Callers : calls[c] < Len(Asks[c])
  /\ (\E i \in Servers : published'[i] \notin {None, published[i]}) => DiagnosticsAsked
=============================================================================
