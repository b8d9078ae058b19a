----------------------------- MODULE PickerRules -----------------------------
(* The rules the page picker goes by (content.js): built-in ones, replaced by *)
(* the extension's two rule files once those are loaded. Users edit the files *)
(* (README.md of the extension), so whatever a file says has to come out as   *)
(* rules that work.                                                           *)
(*                                                                            *)
(* A file maps the keys it has to raw values: a number, a list of strings, a  *)
(* list of patterns, scores, or something else. A pattern is the value it     *)
(* recognises, and whether it compiles. Of each kind of setting one or two    *)
(* stand for all: the limits, lists and patterns left out are normalised by   *)
(* the same operators.                                                        *)
EXTENDS Integers, Sequences, FiniteSets, SequencesExt, Functions

Number(n) == [is |-> "number", n |-> n]
List(items) == [is |-> "list", items |-> items]
Scores(score) == [is |-> "scores", score |-> score]
Junk == [is |-> "junk"]

Pattern(value) == [recognises |-> value, compiles |-> TRUE]
BadPattern == [recognises |-> "", compiles |-> FALSE]

Clamp01(score) == IF score < 0 THEN 0 ELSE IF score > 100 THEN 100 ELSE score

Fallback ==
    [ selectorAttributes |-> <<"data-testid", "sign", "name", "aria-label", "title", "placeholder">>,
      textTags |-> <<"button", "a", "label", "span", "div">>,
      tokenPatterns |-> <<Pattern("x7712009")>>,
      textPatterns |-> <<Pattern("12:30")>>,
      frameAttributes |-> <<"id", "name", "data-testid", "title", "src", "frameborder">>,
      framePatterns |-> <<Pattern("x7712009"), Pattern("x-iframe4")>>,
      scores |-> [a \in {"data-testid", "title"} |-> IF a = "title" THEN 88 ELSE 97],
      maxCandidates |-> 8 ]

\* Deviation: only the upper end of the range is kept.
NoLowerBound(raw, fallback, least, most) ==
    IF raw.is # "number" THEN fallback ELSE IF raw.n > most THEN most ELSE raw.n

ClampInteger(raw, fallback, least, most) ==
    IF raw.is # "number" THEN fallback
    ELSE IF raw.n > most THEN most ELSE IF raw.n < least THEN least ELSE raw.n

\* The value of the first of some keys that the file has.
PickFirstDefined(file, keys, fallback) ==
    LET there == SelectSeq(keys, LAMBDA key : key \in DOMAIN file)
    IN  IF there = <<>> THEN fallback ELSE file[Head(there)]

NormalizeStringList(raw, most) ==
    IF raw.is # "list" THEN <<>>
    ELSE LET once == FoldLeft(LAMBDA kept, item : IF Contains(kept, item) \/ item = "" THEN kept
                                                  ELSE Append(kept, item), <<>>, raw.items)
         IN  SubSeq(once, 1, IF Len(once) < most THEN Len(once) ELSE most)

OrElse(list, fallback) == IF list = <<>> THEN fallback ELSE list

\* Patterns that do not compile are skipped; with none left the built-in ones count.
NormalizeRegexList(raw, fallback) ==
    OrElse(SelectSeq(IF raw.is = "list" THEN raw.items ELSE fallback, LAMBDA p : p.compiles), fallback)

NormalizeScoreOverrides(raw, fallback) ==
    LET source == IF raw.is = "scores" THEN raw.score ELSE fallback
    IN  [a \in DOMAIN source |-> Clamp01(source[a])]

NormalizeSelectorRuleConfig(file) ==
    [ preferredAttributes |->
        OrElse(NormalizeStringList(PickFirstDefined(file,
                   <<"preferredAttributes", "attributePriority", "preferredAttrs">>,
                   List(Fallback.selectorAttributes)), 48), Fallback.selectorAttributes),
      textFriendlyTags |->
        OrElse(NormalizeStringList(PickFirstDefined(file,
                   <<"textFriendlyTags", "textTags", "textTargetTags">>,
                   List(Fallback.textTags)), 32), Fallback.textTags),
      dynamicTokenPatterns |->
        NormalizeRegexList(PickFirstDefined(file, <<"dynamicTokenPatterns", "volatileTokenPatterns">>,
            List(Fallback.tokenPatterns)), Fallback.tokenPatterns),
      dynamicTextPatterns |->
        NormalizeRegexList(PickFirstDefined(file, <<"dynamicTextPatterns", "volatileTextPatterns">>,
            List(Fallback.textPatterns)), Fallback.textPatterns),
      maxCandidates |->
        ClampInteger(PickFirstDefined(file, <<"maxCandidates">>, Number(Fallback.maxCandidates)),
                     Fallback.maxCandidates, 3, 16) ]

NormalizeFrameRuleConfig(file) ==
    [ preferredAttributes |->
        OrElse(NormalizeStringList(PickFirstDefined(file,
                   <<"preferredAttributes", "attributePriority", "preferredAttrs">>,
                   List(Fallback.frameAttributes)), 32), Fallback.frameAttributes),
      dynamicIdPatterns |->
        NormalizeRegexList(PickFirstDefined(file, <<"dynamicIdPatterns", "volatileIdPatterns">>,
            List(Fallback.framePatterns)), Fallback.framePatterns),
      attributeScoreOverrides |->
        NormalizeScoreOverrides(PickFirstDefined(file, <<"attributeScoreOverrides", "attrScore">>,
            Scores(Fallback.scores)), Fallback.scores),
      maxCandidates |->
        ClampInteger(PickFirstDefined(file, <<"maxCandidates">>, Number(Fallback.maxCandidates)),
                     Fallback.maxCandidates, 3, 16) ]

NoFile == [key \in {} |-> Junk]
BuiltIn == [ selector |-> NormalizeSelectorRuleConfig(NoFile), frame |-> NormalizeFrameRuleConfig(NoFile) ]

\* ensurePickerRulesLoaded: both files, or after any failure the built-in rules.
LoadedRules(files) ==
    [ selector |-> NormalizeSelectorRuleConfig(files.selector),
      frame |-> NormalizeFrameRuleConfig(files.frame) ]

Recognises(patterns, value) == \E i \in DOMAIN patterns : patterns[i].recognises = value
=============================================================================
