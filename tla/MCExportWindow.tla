--------------------------- MODULE MCExportWindow ---------------------------
(***************************************************************************)
(* Exports for ExportWindow: hours of two ticks, days of three hours, zones *)
(* whole and half an hour from UTC, some with a change of offset.          *)
(***************************************************************************)
EXTENDS ExportWindow

MCZones == {[before |-> 0, after |-> 0, jump |-> 0], [before |-> 1, after |-> 1, jump |-> 0],
            [before |-> -2, after |-> -2, jump |-> 0], [before |-> 2, after |-> 4, jump |-> 13],
            [before |-> 4, after |-> 2, jump |-> 11]}
MCFlags ==
    {[kind |-> "none", from |-> 0, to |-> 0]}
    \cup {[kind |-> "days", from |-> a, to |-> b] : a \in 0..2, b \in 0..1}
    \cup {[kind |-> "since", from |-> a, to |-> 0] : a \in {3, 9, 15, 20}}
    \cup {[kind |-> "until", from |-> 0, to |-> b] : b \in {8, 11, 12, 17}}
    \cup {[kind |-> "both", from |-> a, to |-> b] : a \in {6, 7}, b \in {7, 11, 12, 13}}
    \cup {[kind |-> "both", from |-> 24, to |-> 26]}
MCBack == {[backend |-> "splunk", corrupt |-> {}, large |-> FALSE, limit |-> 1]}
          \cup {[backend |-> "cloudtrail", corrupt |-> b[1], large |-> b[2], limit |-> b[3]] :
                    b \in {<<{}, FALSE, 1>>, <<{2}, TRUE, 4>>, <<{1, 2}, FALSE, 40>>}}
MCExports ==
    {[flags |-> f, zone |-> z, now |-> n, backend |-> b.backend, unreadable |-> u,
      corrupt |-> b.corrupt, large |-> b.large, limit |-> b.limit] :
        f \in {g \in MCFlags : g.kind = "days" => g.to <= g.from}, z \in MCZones,
        n \in {18, 19}, b \in MCBack, u \in {{}, {8, 13}, 0..23}}
=============================================================================
