--------------------------- MODULE TileGridProofs ---------------------------
(***************************************************************************)
(* What the tiles of TileGrid cover, for every frame and model width.      *)
(***************************************************************************)
EXTENDS TileGrid, TLAPS

\* The stride is at least one pixel and at most a tile.
LEMMA StrideBounds ==
    ASSUME NEW crop \in Nat \ {0}
    PROVE  StridePx(crop) \in 1 .. crop
BY DEF StridePx

\* Rounding up: b times the quotient reaches a, and one less does not.
LEMMA CeilDivBounds ==
    ASSUME NEW a \in Nat, NEW b \in Nat \ {0}
    PROVE  /\ CeilDiv(a, b) \in Nat
           /\ CeilDiv(a, b) * b >= a
           /\ CeilDiv(a, b) * b < a + b
BY DEF CeilDiv

\* The quotient and the remainder of a division.
LEMMA DivMod ==
    ASSUME NEW n \in Nat, NEW b \in Nat \ {0}
    PROVE  /\ n \div b \in Nat /\ n % b \in 0 .. b - 1
           /\ n = (n \div b) * b + (n % b)
           /\ (n \div b) * b <= n /\ n < (n \div b) * b + b
OBVIOUS

\* A row-major index taken apart again.
LEMMA RowMajor ==
    ASSUME NEW a \in Nat, NEW b \in Nat \ {0}, NEW r \in 0 .. b - 1
    PROVE  (a * b + r) \div b = a /\ (a * b + r) % b = r
<1> DEFINE n == a * b + r
           q == n \div b
<1>1. n \in Nat /\ q \in Nat
    OBVIOUS
<1>2. n = q * b + (n % b) /\ n % b \in 0 .. b - 1
    BY <1>1, DivMod
<1>3. q = a
    <2>1. CASE q < a
        <3>1. a * b >= (q + 1) * b
            BY <1>1, <2>1
        <3> QED BY <1>1, <1>2, <3>1
    <2>2. CASE q > a
        <3>1. q * b >= (a + 1) * b
            BY <1>1, <2>2
        <3> QED BY <1>1, <1>2, <3>1
    <2> QED BY <1>1, <2>1, <2>2
<1> QED BY <1>1, <1>2, <1>3

\* No tile starts before the frame or reaches over its border.
LEMMA OffsetInside ==
    ASSUME NEW crop \in Nat \ {0}, NEW size \in Nat, size >= crop, NEW k \in Nat
    PROVE  TileOffset(k, size, crop) \in 0 .. size - crop
<1> DEFINE s == StridePx(crop)
<1>1. s \in Nat /\ k * s \in Nat
    BY StrideBounds
<1> HIDE DEF s
<1> QED BY <1>1 DEF TileOffset, s

\* Every position along a side lies in one of the tiles along it.
LEMMA SideCovered ==
    ASSUME NEW crop \in Nat \ {0}, NEW size \in Nat, size >= crop,
           NEW p \in 0 .. size - 1
    PROVE  /\ TilesAlong(size, crop) \in Nat \ {0}
           /\ \E k \in 0 .. TilesAlong(size, crop) - 1 :
                  SpanCovers(TileOffset(k, size, crop), crop, p)
<1> DEFINE s == StridePx(crop)
           n == CeilDiv(size - crop, s)
           k == p \div s
<1>1. s \in Nat \ {0} /\ s <= crop
    BY StrideBounds
<1>2. size - crop \in Nat
    OBVIOUS
<1>3. n \in Nat /\ n * s >= size - crop /\ n * s < size - crop + s
    BY <1>1, <1>2, CeilDivBounds
<1>4. TilesAlong(size, crop) = n + 1
    BY DEF TilesAlong
<1>5. k \in Nat /\ k * s <= p /\ p < k * s + s
    <2> HIDE DEF s, n
    <2>1. p \in Nat
        OBVIOUS
    <2> QED BY <1>1, <2>1, DivMod
<1>6. ASSUME NEW j \in Nat
      PROVE  TileOffset(j, size, crop)
                 = IF j * s + crop > size THEN size - crop ELSE j * s
    BY DEF TileOffset
<1> HIDE DEF s, n, k
<1>7. CASE k < n
    <2>1. k * s + s <= n * s
        <3>1. (k + 1) * s <= n * s
            BY <1>1, <1>3, <1>5, <1>7
        <3> QED BY <1>1, <1>5, <3>1
    <2>2. k * s \in Nat /\ k * s + crop <= size
        BY <1>1, <1>3, <1>5, <2>1
    <2>3. TileOffset(k, size, crop) = k * s
        BY <1>5, <1>6, <2>2
    <2> QED BY <1>1, <1>3, <1>4, <1>5, <1>7, <2>2, <2>3 DEF SpanCovers
<1>8. CASE k >= n
    <2>1. n * s <= k * s /\ n * s \in Nat /\ k * s \in Nat
        BY <1>1, <1>3, <1>5, <1>8
    <2>2. TileOffset(n, size, crop) = size - crop
        BY <1>3, <1>6, <2>1
    <2> QED BY <1>1, <1>3, <1>4, <1>5, <2>1, <2>2 DEF SpanCovers
<1> QED BY <1>3, <1>4, <1>5, <1>7, <1>8

\* Every tile the cutter hands out lies inside the frame: no region of interest
\* is cut beyond the image.
THEOREM TilesInside ==
    ASSUME NEW crop \in Nat \ {0},
           NEW plane \in [width : Nat \ {0}, height : Nat \ {0}],
           plane.width >= crop, plane.height >= crop,
           NEW i \in 1 .. TileCount(plane, crop)
    PROVE  TileInside(TileAt(i, plane, crop), plane, crop)
<1>1. TilesAlong(plane.width, crop) \in Nat \ {0} /\ TilesAlong(plane.height, crop) \in Nat \ {0}
    <2>1. 0 \in 0 .. plane.width - 1 /\ 0 \in 0 .. plane.height - 1
          /\ plane.width \in Nat /\ plane.height \in Nat
        OBVIOUS
    <2> QED BY <2>1, SideCovered
<1> DEFINE m == TilesAlong(plane.width, crop)
           n == TilesAlong(plane.height, crop)
<1> HIDE DEF m, n
<1>2. i \in Nat \ {0}
    <2>1. TileCount(plane, crop) = m * n
        BY DEF TileCount, m, n
    <2>2. m * n \in Nat
        BY <1>1 DEF m, n
    <2> QED BY <2>1, <2>2
<1>3. (i - 1) % m \in Nat /\ (i - 1) \div m \in Nat
    <2>1. i - 1 \in Nat /\ m \in Nat \ {0}
        BY <1>1, <1>2 DEF m
    <2>2. ASSUME NEW j \in Nat
          PROVE  j % m \in Nat /\ j \div m \in Nat
        <3>1. j \div m \in Nat /\ j % m \in 0 .. m - 1
            BY <2>1, DivMod
        <3> QED BY <2>1, <3>1
    <2> QED BY <2>1, <2>2
<1>4. plane.width \in Nat /\ plane.height \in Nat
    OBVIOUS
<1>5. TileOffset((i - 1) % m, plane.width, crop) \in 0 .. plane.width - crop
    BY <1>3, <1>4, OffsetInside
<1>6. TileOffset((i - 1) \div m, plane.height, crop) \in 0 .. plane.height - crop
    BY <1>3, <1>4, OffsetInside
<1>7. TileAt(i, plane, crop) = [x_offset |-> TileOffset((i - 1) % m, plane.width, crop),
                              y_offset |-> TileOffset((i - 1) \div m, plane.height, crop)]
    BY DEF TileAt, m
<1> QED BY <1>5, <1>6, <1>7 DEF TileInside

\* Every pixel of a frame that is no smaller than the model's input lies in one
\* of the tiles the cutter hands out.
THEOREM TilesCover ==
    ASSUME NEW crop \in Nat \ {0},
           NEW plane \in [width : Nat \ {0}, height : Nat \ {0}],
           plane.width >= crop, plane.height >= crop,
           NEW x \in 0 .. plane.width - 1, NEW y \in 0 .. plane.height - 1
    PROVE  \E i \in 1 .. TileCount(plane, crop) :
               TileCovers(TileAt(i, plane, crop), crop, x, y)
<1> DEFINE m == TilesAlong(plane.width, crop)
           n == TilesAlong(plane.height, crop)
<1>0. plane.width \in Nat /\ plane.height \in Nat
    OBVIOUS
<1>1. m \in Nat \ {0} /\ \E k \in 0 .. m - 1 :
          SpanCovers(TileOffset(k, plane.width, crop), crop, x)
    BY <1>0, SideCovered
<1>2. n \in Nat \ {0} /\ \E k \in 0 .. n - 1 :
          SpanCovers(TileOffset(k, plane.height, crop), crop, y)
    BY <1>0, SideCovered
<1>3. TileCount(plane, crop) = m * n
    BY DEF TileCount
<1>4. ASSUME NEW j \in Nat
      PROVE  TileAt(j, plane, crop)
                 = [x_offset |-> TileOffset((j - 1) % m, plane.width, crop),
                    y_offset |-> TileOffset((j - 1) \div m, plane.height, crop)]
    BY DEF TileAt
<1> HIDE DEF m, n
<1>5. PICK c \in 0 .. m - 1 : SpanCovers(TileOffset(c, plane.width, crop), crop, x)
    BY <1>1
<1>6. PICK r \in 0 .. n - 1 : SpanCovers(TileOffset(r, plane.height, crop), crop, y)
    BY <1>2
<1> DEFINE i == r * m + c + 1
<1>7. i \in 1 .. m * n
    <2>1. r * m \in Nat /\ (r + 1) * m <= n * m
        BY <1>1, <1>2
    <2>2. n * m = m * n /\ (r + 1) * m = r * m + m /\ m * n \in Nat
        BY <1>1, <1>2
    <2> QED BY <1>1, <2>1, <2>2
<1>8. (i - 1) \div m = r /\ (i - 1) % m = c
    <2>1. r \in Nat /\ r * m \in Nat /\ i - 1 = r * m + c
        BY <1>1, <1>2
    <2>2. m \in Nat \ {0} /\ r \in Nat /\ c \in 0 .. m - 1
        BY <1>1, <2>1
    <2>3. (r * m + c) \div m = r /\ (r * m + c) % m = c
        BY <2>2, RowMajor, Zenon
    <2> HIDE DEF i
    <2> QED BY <2>1, <2>3, Zenon
<1>9. i \in Nat
    BY <1>1, <1>2
<1> HIDE DEF i
<1>10. TileCovers(TileAt(i, plane, crop), crop, x, y)
    BY <1>4, <1>5, <1>6, <1>8, <1>9 DEF TileCovers
<1> QED BY <1>3, <1>7, <1>10

=============================================================================
