------------------------------- MODULE Search -------------------------------
(***************************************************************************)
(* BinarySearch (mySearch.cpp) on an array sorted one way or the other,    *)
(* with the compare function mySearch.h gives as the example.  int has a   *)
(* width: low + high may pass IntMax.                                      *)
(***************************************************************************)
EXTENDS Integers

CONSTANTS MaxCnt,    \* bound on the number of elements
          MaxKey,    \* elements and keys are 1 .. MaxKey
          IntMax     \* the greatest int

ASSUME SearchAssumption == MaxCnt \in Nat /\ MaxKey \in Nat \ {0} /\ IntMax \in Nat

VARIABLES cnt, array, key,  \* the arguments; the elements are array[0 .. cnt - 1]
          low, high,
          searching,        \* inside the loop
          found             \* what the last call returned

searchVars == <<cnt, array, key, low, high, searching, found>>

Elements == 1 .. MaxKey
Ascending(n, a)  == \A p, q \in 0 .. n - 1 : p < q => a[p] <= a[q]
Descending(n, a) == \A p, q \in 0 .. n - 1 : p < q => a[p] >= a[q]
Arrays(n) == {a \in [0 .. n - 1 -> Elements] : Ascending(n, a) \/ Descending(n, a)}

SearchInit ==
  /\ cnt = 0 /\ array \in Arrays(0) /\ key = 1
  /\ low = 0 /\ high = -1 /\ searching = FALSE /\ found = -1

BinarySearch ==
  /\ ~searching
  /\ \E n \in 0 .. MaxCnt : cnt' = n /\ array' \in Arrays(n) /\ high' = n - 1
  /\ key' \in Elements
  /\ low' = 0
  /\ searching' = (cnt' > 0)
  /\ found' = -1

\* fun(key, pt), as in the example of the header
Compare(k, x) == IF k < x THEN -1 ELSE IF k > x THEN 1 ELSE 0

\* An int sum that passes IntMax wraps; division truncates towards zero.
Wrapped(n) == IF n > IntMax THEN n - 2 * (IntMax + 1) ELSE n
Half(n) == IF n >= 0 THEN n \div 2 ELSE -((-n) \div 2)
mid == Half(Wrapped(low + high))

\* In front of the array or behind it anything may lie.
Outcomes == IF mid \in 0 .. cnt - 1 THEN {Compare(key, array[mid])} ELSE {-1, 0, 1}

\* `low < high' for the loop's `low <= high'.
ProbeShort ==
  /\ searching
  /\ \E rs \in Outcomes :
       \/ rs = 0 /\ found' = mid /\ searching' = FALSE /\ UNCHANGED <<low, high>>
       \/ rs < 0 /\ high' = mid - 1 /\ searching' = (low < high') /\ UNCHANGED <<low, found>>
       \/ rs > 0 /\ low' = mid + 1 /\ searching' = (low' < high) /\ UNCHANGED <<high, found>>
  /\ UNCHANGED <<cnt, array, key>>

\* One turn of the loop, and the test for the next.
Probe ==
  /\ searching
  /\ \E rs \in Outcomes :
       \/ rs = 0 /\ found' = mid /\ searching' = FALSE /\ UNCHANGED <<low, high>>
       \/ rs < 0 /\ high' = mid - 1 /\ searching' = (low <= high') /\ UNCHANGED <<low, found>>
       \/ rs > 0 /\ low' = mid + 1 /\ searching' = (low' <= high) /\ UNCHANGED <<high, found>>
  /\ UNCHANGED <<cnt, array, key>>

SearchNext == BinarySearch \/ Probe

SearchSpec == SearchInit /\ [][SearchNext]_searchVars

----------------------------------------------------------------------------
\* low + high never passes IntMax.
SearchFits == 2 * (cnt - 1) <= IntMax

Present == \E p \in 0 .. cnt - 1 : array[p] = key

\* The loop reads inside the array only, however it is sorted, and it ends with
\* an element equal to the key whenever there is one if the array ascends, for
\* as many elements as mid can be computed of without overflow.
SearchRight ==
  SearchFits =>
    /\ searching => mid \in 0 .. cnt - 1
    /\ ~searching /\ Ascending(cnt, array) =>
         IF Present THEN found \in 0 .. cnt - 1 /\ array[found] = key ELSE found = -1

----------------------------------------------------------------------------
\* What the header says, and the code does not do: with a compare function
\* that returns 1 when the first is the greater, the array is sorted "from
\* large to small" (mySearch.h:27), and a key that is there is found.
FoundAsDocumented ==
  SearchFits /\ Descending(cnt, array) /\ ~searching /\ Present => found # -1
=============================================================================
