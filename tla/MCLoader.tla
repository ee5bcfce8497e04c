------------------------------ MODULE MCLoader ------------------------------
(* Loader for TLC: every export of up to four rows that is what it is told *)
(* to be; every one of up to three rows told another format or none, with  *)
(* garbage lines of every look in JSONL; and every export of one row with  *)
(* one cell that is not good, its port infinite or not.                    *)
EXTENDS Loader

MCBlank == Other("blank", "unknown")

(* A CSV row is always an object, so never garbage, and only a broken line *)
(* opens with the brace of an object and is none.                          *)
MCGarbage(layout) ==
    CASE layout = "csv"   -> {}
      [] layout = "json"  -> {Other("scalar", "unknown"), Other("broken", "unknown")}
      [] layout = "jsonl" -> {Other("scalar", looks) : looks \in {"json", "csv", "unknown"}}
                                 \cup {Other("broken", looks) : looks \in Formats \cup {"unknown"}}

MCRows(layout) ==
    {Entry(3), Invalid} \cup MCGarbage(layout) \cup (IF layout = "json" THEN {} ELSE {MCBlank})

MCPlainRows(layout) == {row \in MCRows(layout) : row.looks \in {"jsonl", "unknown"}}

MCLists(rows, most) == UNION {[1..n -> rows] : n \in 0..most}

MCExports(told, layout, lists) == [told : told, layout : {layout}, rows : lists]

MCCells(f) == IF f = "nested" THEN Cell \ {"value"} ELSE Cell

(* No cell is on the list of those that differ in vain.                    *)
ASSUME DependentExactly ==
    FormatDependent =
        {fc \in UNION {{f} \X MCCells(f) : f \in Fields} :
           LET cells == [AllGood EXCEPT ![fc[1]] = fc[2]]
           IN  fc = <<"port", "infinite">> \/ (Validates(cells) # Validates(CleanCsvRow(cells)))}

MCSpoilt ==
    {[[AllGood EXCEPT !.port = port] EXCEPT ![fc[1]] = fc[2]] :
       port \in {"value", "infinite"}, fc \in UNION {{f} \X MCCells(f) : f \in Fields}}

MCFiles ==
    UNION {MCExports({layout}, layout, MCLists(MCPlainRows(layout), 4))
               \cup MCExports(Formats \cup {"unknown"}, layout, MCLists(MCRows(layout), 3))
               \cup MCExports({layout}, layout,
                              {<<Object(cells, 3, "aware"), Entry(3)>> : cells \in MCSpoilt})
             : layout \in Formats}

(* JSONL with a line that is no JSON.                                       *)
MCBroken ==
    MCExports({"jsonl"}, "jsonl", MCLists({Entry(3), Invalid, Other("broken", "unknown")}, 3))
=============================================================================
