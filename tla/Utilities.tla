------------------------------ MODULE Utilities ------------------------------
(***************************************************************************)
(* The value classes of @ohos.util, util/src/util_js.ts: LRUCache and its  *)
(* predecessor LruBuffer, RationalNumber, ScopeHelper and Scope, the       *)
(* wrappers of Aspect, and the conversions between promises and callbacks. *)
(* Each kind is used on its own.                                           *)
(***************************************************************************)
EXTENDS Integers, Sequences, SequencesExt

CONSTANTS
  Keys, MaxCapacity,  \* bounds: keys and capacity of a cache
  MaxNumber,          \* bound: of numerators, denominators and limits
  MaxLayers           \* bound: wrappers and replacements of one method

VARIABLE utilities

Undefined == 0
Throw == <<>>
Kinds == {"LRUCache", "LruBuffer", "Rational", "Scope", "Aspect", "Promise"}
Caches == {"LRUCache", "LruBuffer"}
Values == {1, 2}
Numbers == (-MaxNumber)..MaxNumber
Points == 0..MaxNumber

(* cache: its pairs, the least recently used first; recent: the keys in    *)
(*   the order of their last use                                           *)
(* gone: the pairs that have left in the last call; reports: of afterRemoval *)
(* evicted: the keys it has evicted, of those there were before            *)
(* hung: the call does not return                                          *)
(* a, b: two values, and answer: that of the last call                     *)
TypeOK ==
  /\ utilities.kind \in Kinds /\ utilities.hung \in BOOLEAN
  /\ utilities.kind \in Caches =>
       /\ utilities.maxSize \in 1..MaxCapacity /\ utilities.length \in 0..(MaxCapacity + 1)
       /\ \A p \in Range(utilities.cache) : p[1] \in Keys /\ p[2] \in Values

Blank == [kind |-> "LRUCache", cache |-> <<>>, maxSize |-> 1, length |-> 0, recent |-> <<>>, gone |-> {}, reports |-> {},
          onRemoval |-> "nothing", createDefault |-> Undefined, hung |-> FALSE, a |-> <<>>, b |-> <<>>, answer |-> <<>>,
          evicted |-> <<>>, before |-> <<>>]

----------------------------------------------------------------------------
(* The caches: a Map keeps the order of insertion, so a pair that is used  *)
(* is deleted and set again.                                               *)

Has(cache, k) == \E i \in DOMAIN cache : cache[i][1] = k
ValueOf(cache, k) == (CHOOSE p \in Range(cache) : p[1] = k)[2]
Deleted(cache, k) == SelectSeq(cache, LAMBDA p : p[1] # k)
SetLast(cache, k, v) == Append(Deleted(cache, k), <<k, v>>)
Iterators == <<Undefined, Undefined>>

Done(s, cache, used, evicted, reports) ==
  [s EXCEPT !.cache = cache, !.length = Len(cache), !.before = s.recent, !.evicted = evicted, !.reports = reports,
            !.recent = LET keys == SelectSeq(@, LAMBDA k : k # used /\ Has(cache, k))
                       IN  IF Has(cache, used) THEN Append(keys, used) ELSE keys,
            !.gone = {p \in Range(s.cache) : ~Has(cache, p[1]) \/ (p[1] = used /\ ValueOf(cache, used) # p[2])}]

(* put: the old value is removed, or the least recently used pair, which   *)
(* is reported first; a callback that puts it back makes it the last one,  *)
(* and the next one is deleted in its place.                               *)
Put(s, k, v) ==
  LET full == ~Has(s.cache, k) /\ Len(s.cache) >= s.maxSize
      victim == Head(s.cache)
      kept == IF s.onRemoval = "putBack" THEN SetLast(s.cache, victim[1], victim[2]) ELSE s.cache
  IN  IF Has(s.cache, k) THEN Done(s, SetLast(s.cache, k, v), k, <<>>, {<<k, ValueOf(s.cache, k)>>})
      ELSE IF full THEN Done(s, SetLast(Tail(kept), k, v), k, <<victim[1]>>, {victim})
      ELSE Done(s, SetLast(s.cache, k, v), k, <<>>, {})

(* get: the value, or createDefault's one, which is put twice and reported.*)
GetUse(s, k) == Done(s, SetLast(s.cache, k, ValueOf(s.cache, k)), k, <<>>, {})
Get(s, k) ==
  IF Has(s.cache, k) THEN GetUse(s, k)
  ELSE IF s.createDefault = Undefined THEN Done(s, s.cache, k, <<>>, {})
  ELSE LET once == Put(s, k, s.createDefault)
       IN  [once EXCEPT !.reports = @ \union {<<k, s.createDefault>>}]
CacheContains(s, k) == IF Has(s.cache, k) THEN GetUse(s, k) ELSE Done(s, s.cache, k, <<>>, {})
CacheRemove(s, k) ==
  Done(s, Deleted(s.cache, k), k, <<>>, IF Has(s.cache, k) THEN {<<k, ValueOf(s.cache, k)>>} ELSE {})

(* updateCapacity, changeCapacity: pairs that are put back are removed     *)
(* again for ever; LruBuffer reports iterators over what is left.          *)
UpdateCapacity(s, n) ==
  LET over == Len(s.cache) - n IN
  IF over > 0 /\ s.onRemoval = "putBack" THEN [s EXCEPT !.hung = TRUE]
  ELSE [Done(s, IF over > 0 THEN SubSeq(s.cache, over + 1, Len(s.cache)) ELSE s.cache, Undefined,
             [i \in 1..over |-> s.cache[i][1]],
             IF over <= 0 THEN {} ELSE IF s.kind = "LRUCache" THEN Range(SubSeq(s.cache, 1, over)) ELSE {Iterators})
        EXCEPT !.maxSize = n]

Clear(s) == Done(s, <<>>, Undefined, <<>>, IF s.kind = "LRUCache" THEN Range(s.cache) ELSE {Iterators})

CacheCall ==
  /\ utilities.kind \in Caches /\ ~utilities.hung
  /\ \/ \E k \in Keys, v \in Values : utilities' = Put(utilities, k, v)
     \/ \E k \in Keys : utilities' = Get(utilities, k)
     \/ \E k \in Keys : utilities' = CacheContains(utilities, k)
     \/ \E k \in Keys : utilities' = CacheRemove(utilities, k)
     \/ \E n \in 1..MaxCapacity : utilities' = UpdateCapacity(utilities, n)
     \/ utilities' = Clear(utilities)

----------------------------------------------------------------------------
(* RationalNumber: mnum and mden *)

Magnitude(x) == IF x < 0 THEN -x ELSE x
Sign(x) == IF x < 0 THEN -1 ELSE IF x > 0 THEN 1 ELSE 0
(* % and / of JavaScript: the remainder has the sign of the dividend.      *)
Rem(x, y) == Sign(x) * (Magnitude(x) % Magnitude(y))
Exact(x, y) == Sign(x) * Sign(y) * (Magnitude(x) \div Magnitude(y))

RECURSIVE Euclid(_, _)
Euclid(x, y) == IF Rem(x, y) = 0 THEN y ELSE Euclid(y, Rem(x, y))
(* getCommonDivisor, getCommonFactor; negative ones stay negative.         *)
CommonDivisor(x, y) == IF x < y THEN Euclid(y, x) ELSE Euclid(x, y)

(* The constructor and parseRationalNumber.                                *)
Rational(num, den) ==
  LET n == IF den < 0 THEN -num ELSE num
      d == Magnitude(den)
      g == CommonDivisor(n, d)
  IN  IF d = 0 THEN <<Sign(n), 0>> ELSE IF n = 0 THEN <<0, 1>> ELSE <<Exact(n, g), Exact(d, g)>>

IsNaN(r) == r = <<0, 0>>
Compare(r, s) ==
  IF r = s THEN 0
  ELSE IF IsNaN(r) THEN 1 ELSE IF IsNaN(s) THEN -1
  ELSE IF (r[2] = 0 /\ r[1] > 0) \/ (s[2] = 0 /\ s[1] < 0) THEN 1
  ELSE IF (r[2] = 0 /\ r[1] < 0) \/ (s[2] = 0 /\ s[1] > 0) THEN -1
  ELSE Sign((r[1] * s[2]) - (s[1] * r[2]))
Equals(r, s) ==
  \/ r = s
  \/ r[1] * s[2] = s[1] * r[2] /\ r[1] # 0 /\ r[2] # 0 /\ s[1] # 0 /\ s[2] # 0
  \/ r[1] = 0 /\ s[1] = 0 /\ r[2] # 0 /\ s[2] # 0
  \/ r[2] = 0 /\ s[2] = 0 /\ r[1] * s[1] > 0

RationalCall ==
  /\ utilities.kind = "Rational" /\ utilities.answer = <<>>
  /\ \E n1, d1, n2, d2 \in Numbers :
       utilities' = [utilities EXCEPT
         !.a = <<n1, d1>>, !.b = <<n2, d2>>,
         !.answer = [r |-> Rational(n1, d1), s |-> Rational(n2, d2)]]

----------------------------------------------------------------------------
(* ScopeHelper: two limits; compareTo of their class means >=              *)

AtLeast(x, y) == x >= y
Scope(lower, upper) == IF AtLeast(lower, upper) THEN Throw ELSE <<lower, upper>>
ScopeContains(s, x) == AtLeast(x[1], s[1]) /\ AtLeast(s[2], x[2])
Clamp(s, v) == IF ~AtLeast(v, s[1]) THEN s[1] ELSE IF AtLeast(v, s[2]) THEN s[2] ELSE v
(* intersect of a scope and of two limits                                  *)
Intersect(s, x) ==
  LET reLower == AtLeast(s[1], x[1])
      reUpper == AtLeast(x[2], s[2])
  IN  IF reLower /\ reUpper THEN s
      ELSE Scope(IF reLower THEN s[1] ELSE x[1], IF reUpper THEN s[2] ELSE x[2])
IntersectScope(s, x) == IF ~AtLeast(s[1], x[1]) /\ ~AtLeast(x[2], s[2]) THEN x ELSE Intersect(s, x)
(* expand by two limits, by one value (twice itself) and by a scope        *)
Expand(s, x) ==
  LET reLower == AtLeast(x[1], s[1])
      reUpper == AtLeast(s[2], x[2])
  IN  IF reLower /\ reUpper THEN s
      ELSE Scope(IF reLower THEN s[1] ELSE x[1], IF reUpper THEN s[2] ELSE x[2])
ExpandScope(s, x) == IF ~AtLeast(x[1], s[1]) /\ ~AtLeast(s[2], x[2]) THEN x ELSE Expand(s, x)

Scopes == {s \in Points \X Points : Scope(s[1], s[2]) # Throw}
ScopeCall ==
  /\ utilities.kind = "Scope" /\ utilities.answer = <<>>
  /\ \E s \in Scopes, x \in Scopes, v \in Points :
       utilities' = [utilities EXCEPT
         !.a = s, !.b = x,
         !.answer = [contains |-> ScopeContains(s, x), value |-> v, has |-> ScopeContains(s, <<v, v>>), clamp |-> Clamp(s, v),
                     intersect |-> {Intersect(s, x), IntersectScope(s, x)},
                     expand |-> {Expand(s, x), ExpandScope(s, x)}, grown |-> Expand(s, <<v, v>>)]]

----------------------------------------------------------------------------
(* Aspect: a method and its wrappers.  An asynchronous method stays one;   *)
(* what its wrapper calls after it runs before it has ended.               *)

(* What a call does, in order: name and kind of the functions that start,  *)
(* and the end of an asynchronous method.                                  *)
RECURSIVE Called(_)
Called(layers) ==
  LET outer == Last(layers)
      inner == Front(layers)
  IN  IF outer.kind = "before" THEN <<outer>> \o Called(inner)
      ELSE IF outer.kind = "after" THEN Append(Called(inner), outer)
      ELSE <<outer>>
(* Whose result the caller gets                                            *)
RECURSIVE Answering(_)
Answering(layers) == IF Last(layers).kind = "before" THEN Answering(Front(layers)) ELSE Last(layers)

Layer(kind, id) == [kind |-> kind, id |-> id]
AddLayer ==
  /\ utilities.kind = "Aspect" /\ Len(utilities.b) < MaxLayers /\ utilities.answer = <<>>
  /\ \E kind \in {"before", "after", "instead"} :
       utilities' = [utilities EXCEPT
         !.a = IF kind = "instead" THEN <<Layer(kind, Len(utilities.b) + 1)>> ELSE Append(@, Layer(kind, Len(utilities.b) + 1)),
         !.b = Append(@, kind)]
CallMethod ==
  /\ utilities.kind = "Aspect" /\ utilities.answer = <<>>
  /\ utilities' = [utilities EXCEPT !.answer = [order |-> Called(utilities.a), result |-> Answering(utilities.a)]]

----------------------------------------------------------------------------
(* promisify, promiseWrapper, callbackWrapper: the outcome of an           *)
(* asynchronous function; a falsy reason of a rejection is no error.       *)

Outcome(state, value) == [state |-> state, value |-> value]
Falsy == Undefined
Callbackified(outcome) == IF outcome.state = "fulfilled" THEN <<Falsy, outcome.value>> ELSE <<outcome.value>>
Promisified(args) ==
  IF args[1] # Falsy THEN Outcome("rejected", args[1]) ELSE Outcome("fulfilled", IF Len(args) > 1 THEN args[2] ELSE Falsy)
PromiseCall ==
  /\ utilities.kind = "Promise" /\ utilities.answer = <<>>
  /\ \E state \in {"fulfilled", "rejected"}, value \in {Falsy} \union Values :
       utilities' = [utilities EXCEPT !.a = <<Outcome(state, value)>>,
                                      !.answer = Promisified(Callbackified(Outcome(state, value)))]

Init ==
  \/ \E kind \in Caches, maxSize \in 1..MaxCapacity, onRemoval \in {"nothing", "putBack"}, value \in {Undefined, 1} :
       utilities = [Blank EXCEPT !.kind = kind, !.maxSize = maxSize, !.onRemoval = onRemoval, !.createDefault = value]
  \/ \E kind \in {"Rational", "Scope", "Promise"} : utilities = [Blank EXCEPT !.kind = kind]
  \/ utilities = [Blank EXCEPT !.kind = "Aspect", !.a = <<Layer("method", 0)>>]
Next == CacheCall \/ RationalCall \/ ScopeCall \/ AddLayer \/ CallMethod \/ PromiseCall
Spec == Init /\ [][Next]_utilities

----------------------------------------------------------------------------
(* A cache holds at most maxSize pairs, in the order of their last use;    *)
(* those that left are the ones reported, if the callback does not use the *)
(* cache and none was created; who was evicted was the least recently used.*)
CacheIsSound ==
  utilities.kind \in Caches /\ ~utilities.hung =>
    /\ Len(utilities.cache) <= utilities.maxSize /\ utilities.length = Len(utilities.cache)
    /\ utilities.onRemoval = "nothing" =>
         /\ [i \in DOMAIN utilities.cache |-> utilities.cache[i][1]] = utilities.recent
         /\ utilities.evicted = SubSeq(utilities.before, 1, Len(utilities.evicted))
    /\ utilities.onRemoval = "nothing" /\ utilities.createDefault = Undefined /\ utilities.kind = "LRUCache" =>
         /\ utilities.gone \subseteq utilities.reports
         /\ \A p \in utilities.reports : p \in utilities.gone \/ Has(utilities.cache, p[1])

(* A number is the fraction in lowest terms, equal numbers are equal, and  *)
(* compare orders them where the denominators stayed positive.             *)
RationalsAreSound ==
  utilities.kind = "Rational" /\ utilities.answer # <<>> =>
    LET r == utilities.answer.r
        s == utilities.answer.s
        a == utilities.a
        b == utilities.b
        finite == a[2] # 0 /\ b[2] # 0
        difference == Sign(a[2]) * Sign(b[2]) * ((a[1] * b[2]) - (b[1] * a[2]))
    IN  /\ a[2] # 0 => r[1] * a[2] = a[1] * r[2] /\ \A d \in 2..MaxNumber : r[1] % d # 0 \/ r[2] % d # 0
        /\ finite => (Equals(r, s) <=> difference = 0)
        /\ finite /\ r[2] > 0 /\ s[2] > 0 => Compare(r, s) = Sign(difference)

(* A scope is the set of values between its limits.                        *)
Between(s) == s[1]..s[2]
ScopesAreSound ==
  utilities.kind = "Scope" /\ utilities.answer # <<>> =>
    LET s == utilities.a
        x == utilities.b
        answer == utilities.answer
        common == Between(s) \intersect Between(x)
    IN  /\ answer.contains <=> Between(x) \subseteq Between(s)
        /\ answer.has <=> answer.value \in Between(s)
        /\ answer.clamp \in Between(s)
        /\ \A y \in Between(s) : Magnitude(answer.clamp - answer.value) <= Magnitude(y - answer.value)
        /\ \A i \in answer.intersect : IF i = Throw THEN \A y, z \in common : y = z ELSE Between(i) = common
        /\ \A e \in answer.expand :
             /\ Between(s) \union Between(x) \subseteq Between(e)
             /\ \A t \in Scopes : Between(s) \union Between(x) \subseteq Between(t) => Between(e) \subseteq Between(t)
        /\ Between(s) \union {answer.value} \subseteq Between(answer.grown)

(* Every wrapper since the last replacement runs once: those before, the   *)
(* last added first, the method, and those after, the first added first;   *)
(* the caller gets the result of the last of them.                         *)
AspectsAreSound ==
  utilities.kind = "Aspect" /\ utilities.answer # <<>> =>
    LET order == utilities.answer.order
        body == CHOOSE i \in DOMAIN order : order[i].kind \in {"method", "instead"}
    IN  /\ Len(order) = Len(utilities.a) /\ Range(order) = Range(utilities.a)
        /\ \A i \in 1..(body - 1) : order[i].kind = "before" /\ (i > 1 => order[i].id < order[i - 1].id)
        /\ \A i \in (body + 1)..Len(order) : order[i].kind = "after" /\ (i > body + 1 => order[i].id > order[i - 1].id)
        /\ utilities.answer.result = Last(order)
        /\ \A i \in DOMAIN utilities.b : utilities.b[i] = "instead" => i <= order[body].id

(* What an asynchronous function ends with is what its callback form, made *)
(* a promise again, ends with, if a reason is given.                       *)
PromisesAreKept ==
  utilities.kind = "Promise" /\ utilities.answer # <<>> =>
    utilities.answer = utilities.a[1] \/ utilities.a = <<Outcome("rejected", Falsy)>>
=============================================================================
