------------------------------ MODULE MCSearch ------------------------------
(* Search on small instances: three documents, the requests below.         *)
EXTENDS Search

(* Values of the field n; `text` is their rank as strings, "10" before "2". *)
two == [kind |-> "number", number |-> 2, text |-> 20]
ten == [kind |-> "number", number |-> 10, text |-> 10]
three == [kind |-> "loose", number |-> 3, text |-> 21]
null == [kind |-> "null", number |-> 0, text |-> 30]
word == [kind |-> "text", number |-> 0, text |-> 40]

MCValues == {two, ten, three, null, word}

Doc(n, k, s1, s2) ==
    [n |-> n, k |-> [strings |-> k, others |-> {}], filter |-> TRUE, post |-> TRUE,
     pattern |-> TRUE, score |-> [f \in {1, 2} |-> IF f = 1 THEN s1 ELSE s2]]

red == Doc(two, {1}, 2, 0)
green == [Doc(ten, {1, 2}, 1, 3) EXCEPT !.post = FALSE]
blue == Doc(two, {2}, 0, 1)
odd == [Doc(three, {3}, 1, 1) EXCEPT !.k.others = {7}, !.pattern = FALSE]
empty == Doc(null, {}, 0, 2)
named == Doc(word, {1}, 1, 0)
other == [Doc(ten, {2}, 2, 2) EXCEPT !.filter = FALSE]

MCContents == {red, green, blue, odd, empty, other, named}
MCWritable == {blue, odd, named}

MCScrollOrder == <<2, 3, 1>>

MCPopulations ==
    {<<red, green, blue>>, <<green, odd, red>>, <<blue, red, empty>>,
     <<other, blue, odd>>, <<red, None, other>>, <<green, other, None>>,
     <<red, blue, odd>>, <<empty, green, None>>}

MCBucket == [x \in 0..20 |-> IF x < 10 THEN 0 ELSE 10]

----------------------------------------------------------------------------
(* Requests: the plain one, and what they change.                          *)

noText == [f \in {} |-> 1]
plain ==
    [entry |-> "search", controls |-> FALSE, from |-> 0, size |-> 2, sort |-> <<>>,
     after |-> None, track |-> [mode |-> "enabled", threshold |-> 0], asInt |-> FALSE,
     text |-> noText, approximate |-> FALSE, sparse |-> FALSE, filter |-> FALSE,
     blank |-> FALSE, patterns |-> FALSE, like |-> None, post |-> FALSE, collapse |-> None,
     aggs |-> <<>>, walk |-> FALSE]

By(field, order) == [field |-> field, order |-> order]
up == <<By("n", None)>>
down == <<By("n", "desc")>>
total == <<By("n", "asc"), By("_id", "desc")>>
byId == <<By("_id", None)>>
both == [f \in {1, 2} |-> f]
first == [f \in {1} |-> 1]

atLeast(x) == [field |-> "n", gte |-> x]
is(x) == [field |-> "k", value |-> x]
filters == [kind |-> "filters", queries |-> {atLeast(3), is(2)}]
terms == [kind |-> "terms", size |-> 1]
counted == [kind |-> "filter", query |-> atLeast(3)]
largest == [kind |-> "max"]
smallest == [kind |-> "min"]
dates == [kind |-> "histogram"]

Rejections ==
    {[plain EXCEPT !.controls = TRUE], [plain EXCEPT !.size = 4],
     [plain EXCEPT !.from = 6], [plain EXCEPT !.sort = <<By("n", Malformed)>>],
     [plain EXCEPT !.after = <<two>>], [plain EXCEPT !.collapse = Malformed],
     [plain EXCEPT !.asInt = TRUE, !.track.mode = "threshold"]}

Plain ==
    {plain, [plain EXCEPT !.size = 0, !.filter = TRUE],
     [plain EXCEPT !.size = 1, !.from = 1, !.track = [mode |-> "threshold", threshold |-> 1]],
     [plain EXCEPT !.patterns = TRUE, !.track.mode = "disabled"],
     [plain EXCEPT !.patterns = TRUE, !.filter = TRUE, !.asInt = TRUE],
     [plain EXCEPT !.entry = "count", !.filter = TRUE],
     [plain EXCEPT !.entry = "count", !.patterns = TRUE],
     [plain EXCEPT !.post = TRUE, !.size = 1]}

collapsedAfter == [plain EXCEPT !.sort = up, !.collapse = "n", !.after = <<two>>]

Sorted ==
    {[plain EXCEPT !.sort = up], [plain EXCEPT !.sort = down, !.size = 1, !.filter = TRUE],
     [plain EXCEPT !.sort = up, !.from = 1, !.size = 1],
     [plain EXCEPT !.sort = up, !.after = <<two>>],
     [plain EXCEPT !.sort = down, !.post = TRUE, !.size = 1],
     [plain EXCEPT !.sort = up, !.patterns = TRUE, !.size = 1],
     [plain EXCEPT !.sort = up, !.size = 0],
     [plain EXCEPT !.sort = total, !.collapse = "n", !.size = 1],
     [plain EXCEPT !.sort = total, !.collapse = "n"],
     collapsedAfter,
     [plain EXCEPT !.sort = total, !.size = 1, !.walk = TRUE],
     [plain EXCEPT !.sort = byId, !.filter = TRUE, !.walk = TRUE],
     [plain EXCEPT !.sort = up, !.size = 1, !.walk = TRUE]}

\* An approximate query with a must_not.
excluding ==
    [plain EXCEPT !.text = both, !.approximate = TRUE, !.filter = TRUE, !.blank = TRUE]

Ranks ==
    {[plain EXCEPT !.text = both, !.size = 1], [plain EXCEPT !.text = both, !.filter = TRUE],
     [plain EXCEPT !.text = both, !.from = 1, !.size = 1],
     [plain EXCEPT !.text = both, !.sort = up, !.size = 1],
     [plain EXCEPT !.text = both, !.sort = <<By("_score", None)>>, !.post = TRUE],
     [plain EXCEPT !.text = both, !.patterns = TRUE],
     [plain EXCEPT !.text = both, !.collapse = "n"],
     [plain EXCEPT !.text = first, !.like = 1],
     [plain EXCEPT !.text = first, !.sparse = TRUE, !.size = 1],
     [plain EXCEPT !.text = both, !.approximate = TRUE],
     [plain EXCEPT !.text = both, !.approximate = TRUE, !.filter = TRUE],
     excluding,
     [plain EXCEPT !.entry = "count", !.text = both, !.approximate = TRUE],
     [plain EXCEPT !.entry = "count", !.text = both]}

Aggregated ==
    {[plain EXCEPT !.size = 0, !.aggs = a] :
        a \in {<<terms>>, <<counted>>, <<terms, counted>>, <<largest, filters>>,
               <<smallest, dates>>}}
    \cup {[plain EXCEPT !.filter = TRUE, !.aggs = <<terms>>, !.size = 1]}

Requests == Rejections \cup Plain \cup Sorted \cup Ranks \cup Aggregated

MCBatches ==
    {<<r>> : r \in Requests}
        \cup {<<[plain EXCEPT !.collapse = Malformed], [plain EXCEPT !.size = 1]>>}

ExcludingBatches == {<<excluding>>}
=============================================================================
