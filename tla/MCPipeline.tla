----------------------------- MODULE MCPipeline -----------------------------
(* Pipeline for TLC: exports of up to five entries with different          *)
(* severities, one with an invalid row, one that does not load, and three  *)
(* whose entries process() cannot run on.                                  *)
EXTENDS Pipeline

MCExport(rows) == [told |-> "jsonl", layout |-> "jsonl", rows |-> rows]

MCSevere == MCExport(<<Entry(1), Entry(4), Entry(0), Entry(1), Entry(3)>>)
MCMild == MCExport(<<Entry(2), Entry(3), Invalid, Entry(1)>>)
MCNone == MCExport(<<Entry(5), Entry(NoSeverity)>>)
MCZones == MCExport(<<Entry(1), EntryAt("naive", 1), Entry(2)>>)
MCLong == MCExport(<<Entry(1), EntryOf("long", 1)>>)
MCGarbage == MCExport(<<Entry(5), Other("broken", "unknown")>>)
MCEmpty == MCExport(<<Invalid>>)

MCFiles == {MCSevere, MCMild, MCNone, MCZones, MCLong, MCGarbage, MCEmpty}

MCCommand(skip, noise, output) ==
    [skip |-> skip, noise |-> noise, classifier |-> TRUE, generator |-> TRUE,
     markdown |-> TRUE, output |-> output, batch |-> 2, minCluster |-> 2]

MCOptions ==
    {MCCommand(FALSE, FALSE, "report.json"),
     [MCCommand(TRUE, TRUE, "report.md") EXCEPT !.batch = 3],
     [MCCommand(FALSE, TRUE, "report.json") EXCEPT !.classifier = FALSE, !.markdown = FALSE],
     [MCCommand(FALSE, TRUE, "report.json") EXCEPT !.generator = FALSE, !.batch = 4],
     [MCCommand(FALSE, FALSE, "report.json") EXCEPT !.batch = 0],
     [MCCommand(FALSE, FALSE, "report.json") EXCEPT !.minCluster = 1]}
=============================================================================
