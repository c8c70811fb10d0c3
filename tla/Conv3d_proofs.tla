--------------------------- MODULE Conv3d_proofs ---------------------------
(***************************************************************************)
(* Proofs about the 3D convolution, for inputs, kernels and numbers of     *)
(* threads of any size.                                                    *)
(***************************************************************************)
EXTENDS Conv3d, WellFoundedInduction, TLAPS

-----------------------------------------------------------------------------
(* Numbers and their digits. *)

LEMMA Least ==
    ASSUME NEW T \in SUBSET Nat, T # {}
    PROVE  \E n \in T : \A m \in T : n <= m
<1>1. \A x, y \in Nat : <<y, x>> \in OpToRel(<, Nat) <=> y < x
  BY DEF OpToRel
<1>2. PICK R : IsWellFoundedOn(R, Nat) /\ \A x, y \in Nat : <<y, x>> \in R <=> y < x
  BY <1>1, NatLessThanWellFounded, Zenon
<1>3. PICK x \in T : \A y \in T : ~ (<<y, x>> \in R)
  BY <1>2, WFMin
<1>4. ASSUME NEW y \in T PROVE x <= y
  <2>1. x \in Nat /\ y \in Nat /\ ~ (<<y, x>> \in R)
    BY <1>3
  <2>2. ~ (y < x)
    BY <1>2, <2>1
  <2> QED
    BY <2>1, <2>2
<1> QED
  BY <1>3, <1>4

LEMMA DivMod ==
    ASSUME NEW n \in Nat, NEW d \in Nat \ {0}
    PROVE  n = (n \div d) * d + (n % d) /\ n \div d \in Nat /\ n % d \in 0 .. d - 1
OBVIOUS

LEMMA DivModUnique ==
    ASSUME NEW d \in Nat \ {0}, NEW q \in Int, NEW r \in 0 .. d - 1
    PROVE  (q * d + r) \div d = q /\ (q * d + r) % d = r
OBVIOUS

LEMMA Monotone ==
    ASSUME NEW d \in Nat, NEW p \in Int, NEW q \in Int, p <= q
    PROVE  p * d <= q * d
OBVIOUS

(* The digits of a number written in rows of c and planes of r rows. *)
LEMMA Digits ==
    ASSUME NEW r \in Nat \ {0}, NEW c \in Nat \ {0}, NEW z \in Int,
           NEW y \in 0 .. r - 1, NEW x \in 0 .. c - 1
    PROVE  LET n == z * (r * c) + y * c + x
           IN  /\ n \div (r * c) = z
               /\ (n % (r * c)) \div c = y /\ (n \div c) % r = y
               /\ n % c = x
               /\ y * c + x \in 0 .. r * c - 1
<1> DEFINE n == z * (r * c) + y * c + x
<1>0. r * c \in Nat \ {0} /\ y * c \in Nat /\ z * (r * c) \in Int
  OBVIOUS
<1>1. y * c + x \in 0 .. r * c - 1
  <2>1. y * c <= (r - 1) * c
    BY Monotone
  <2>2. (r - 1) * c = r * c - c
    OBVIOUS
  <2> QED
    BY <1>0, <2>1, <2>2
<1>2. n = z * (r * c) + (y * c + x)
  BY <1>0
<1>3. n \div (r * c) = z /\ n % (r * c) = y * c + x
  <2> DEFINE d == r * c
             s == y * c + x
  <2>1. d \in Nat \ {0} /\ s \in 0 .. d - 1 /\ n = z * d + s
    BY <1>0, <1>1, <1>2
  <2> HIDE DEF d, s, n
  <2>2. n \div d = z /\ n % d = s
    BY <2>1, DivModUnique
  <2> QED
    BY <2>2 DEF d, s
<1>4. (y * c + x) \div c = y
  BY DivModUnique
<1>5. n = (z * r + y) * c + x
  BY <1>0
<1>6. n \div c = z * r + y /\ n % c = x
  <2>1. z * r + y \in Int
    OBVIOUS
  <2> HIDE DEF n
  <2> QED
    BY <1>5, <2>1, DivModUnique
<1>7. (z * r + y) % r = y
  BY DivModUnique
<1> HIDE DEF n
<1>8. n \div (r * c) = z /\ (n % (r * c)) \div c = y /\ (n \div c) % r = y /\ n % c = x
  BY <1>3, <1>4, <1>6, <1>7
<1> QED
  BY <1>1, <1>8 DEF n

LEMMA HasDigits ==
    ASSUME NEW r \in Nat \ {0}, NEW c \in Nat \ {0}, NEW n \in Nat
    PROVE  \E z \in Nat, y \in 0 .. r - 1, x \in 0 .. c - 1 : n = z * (r * c) + y * c + x
<1>1. n = (n \div c) * c + (n % c) /\ n \div c \in Nat /\ n % c \in 0 .. c - 1
  BY DivMod
<1> DEFINE m == n \div c
<1>2. m = (m \div r) * r + (m % r) /\ m \div r \in Nat /\ m % r \in 0 .. r - 1
  BY <1>1, DivMod
<1> HIDE DEF m
<1>3. m * c = (m \div r) * (r * c) + (m % r) * c
  <2>1. \A p, q \in Nat : m = p * r + q => m * c = p * (r * c) + q * c
    OBVIOUS
  <2> QED
    BY <1>2, <2>1
<1>4. n = (m \div r) * (r * c) + (m % r) * c + (n % c)
  BY <1>1, <1>3 DEF m
<1> QED
  BY <1>1, <1>2, <1>4

-----------------------------------------------------------------------------
(* One output element is the sample's: of the products one at most is not  *)
(* 0, the one whose lane lies over the 1 of the input.                     *)

Sized == {Depths, Rows, Columns, kernelwidth} \subseteq Nat \ {0} /\ hot \in Address

(* The sum of lanes that are 0 but for lane k0; none is when k0 lies       *)
(* behind the last one.                                                    *)
LEMMA OneProduct ==
    ASSUME Sized, NEW a, NEW k0 \in Nat,
           \A k \in 0 .. total_kernel_size - 1 : temparr(a, k) = IF k = k0 THEN 1 ELSE 0
    PROVE  Products(a) = IF k0 < total_kernel_size THEN k0 + 1 ELSE 0
<1> DEFINE W == total_kernel_size
           f(k) == kernelArr(k) * temparr(a, k)
<1>0. W \in Nat /\ \A k \in 0 .. W - 1 : f(k) = IF k = k0 THEN k0 + 1 ELSE 0
  <2>1. W \in Nat
    BY DEF Sized, total_kernel_size
  <2>2. ASSUME NEW k \in 0 .. W - 1 PROVE f(k) = IF k = k0 THEN k0 + 1 ELSE 0
    <3>1. temparr(a, k) = IF k = k0 THEN 1 ELSE 0
      OBVIOUS
    <3>2. kernelArr(k) = k + 1 /\ k \in Nat
      BY <2>1 DEF kernelArr
    <3> HIDE DEF W
    <3> QED
      BY <3>1, <3>2
  <2> QED
    BY <2>1, <2>2
<1> DEFINE sum[n \in 0 .. W] == IF n = 0 THEN 0 ELSE sum[n - 1] + f(n - 1)
           g == [n \in 0 .. W |-> IF k0 < n THEN k0 + 1 ELSE 0]
<1>1. Products(a) = sum[W]
  BY DEF Products
<1> HIDE DEF W, f
<1>2. g = [n \in 0 .. W |-> IF n = 0 THEN 0 ELSE g[n - 1] + f(n - 1)]
  <2>1. ASSUME NEW n \in 0 .. W
        PROVE  (IF k0 < n THEN k0 + 1 ELSE 0) = IF n = 0 THEN 0 ELSE g[n - 1] + f(n - 1)
    <3>1. CASE n = 0
      BY <3>1
    <3>2. CASE n # 0
      <4>1. n - 1 \in 0 .. W - 1 /\ n - 1 \in 0 .. W
        BY <1>0, <3>2
      <4>2. f(n - 1) = IF n - 1 = k0 THEN k0 + 1 ELSE 0
        BY <1>0, <4>1
      <4>3. g[n - 1] = IF k0 < n - 1 THEN k0 + 1 ELSE 0
        BY <4>1
      <4> HIDE DEF g
      <4> QED
        BY <3>2, <4>1, <4>2, <4>3
    <3> QED
      BY <3>1, <3>2
  <2> QED
    BY <2>1
<1>3. sum = [n \in 0 .. W |-> IF n = 0 THEN 0 ELSE sum[n - 1] + f(n - 1)]
  <2> HIDE DEF g
  <2> QED
    BY <1>2 DEF sum
<1> HIDE DEF sum
<1>4. \A n \in 0 .. W : sum[n] = IF k0 < n THEN k0 + 1 ELSE 0
  <2> DEFINE Bad == {n \in 0 .. W : sum[n] # IF k0 < n THEN k0 + 1 ELSE 0}
  <2>1. SUFFICES ASSUME Bad # {} PROVE FALSE
    OBVIOUS
  <2>2. PICK n \in Bad : \A m \in Bad : n <= m
    <3>1. Bad \in SUBSET Nat
      BY <1>0
    <3> HIDE DEF Bad
    <3> QED
      BY <2>1, <3>1, Least
  <2>3. n \in 0 .. W /\ sum[n] # IF k0 < n THEN k0 + 1 ELSE 0
    OBVIOUS
  <2>4. n # 0
    BY <1>0, <1>3, <2>3
  <2>5. n - 1 \in 0 .. W /\ n - 1 \notin Bad /\ n - 1 \in 0 .. W - 1
    BY <1>0, <2>2, <2>3, <2>4
  <2>6. sum[n - 1] = IF k0 < n - 1 THEN k0 + 1 ELSE 0
    BY <2>5
  <2>7. sum[n] = sum[n - 1] + f(n - 1)
    BY <1>3, <2>3, <2>4
  <2>8. f(n - 1) = IF n - 1 = k0 THEN k0 + 1 ELSE 0
    BY <1>0, <2>5
  <2> QED
    BY <2>3, <2>4, <2>6, <2>7, <2>8
<1>5. W \in 0 .. W
  BY <1>0
<1> QED
  BY <1>1, <1>4, <1>5 DEF W

(* The offsets of the input's 1 from the corner of an output's window. *)
dz(a) == (hot \div Plane) - (a \div Plane) + pad
dy(a) == ((hot % Plane) \div Columns) - ((a % Plane) \div Columns) + pad
dx(a) == (hot % Columns) - (a % Columns) + pad

Window == 0 .. kernelwidth - 1

LEMMA LaneOver ==
    ASSUME Sized, NEW a \in Address, NEW k \in 0 .. total_kernel_size - 1
    PROVE  LET kz == k \div (kernelwidth * kernelwidth)
               ky == (k \div kernelwidth) % kernelwidth
               kx == k % kernelwidth
           IN  temparr(a, k) = IF kz = dz(a) /\ ky = dy(a) /\ kx = dx(a) THEN 1 ELSE 0
<1> DEFINE kz == k \div (kernelwidth * kernelwidth)
           ky == (k \div kernelwidth) % kernelwidth
           kx == k % kernelwidth
           nz == (a \div Plane) - pad + kz
           ny == ((a % Plane) \div Columns) - pad + ky
           nx == (a % Columns) - pad + kx
<1>0. /\ Rows \in Nat \ {0} /\ Columns \in Nat \ {0} /\ Depths \in Nat \ {0}
      /\ kernelwidth \in Nat \ {0} /\ Plane = Rows * Columns /\ Plane \in Nat \ {0}
      /\ hot \in Nat /\ hot < Depths * Plane /\ a \in Nat /\ pad \in Int
  <2>1. /\ Rows \in Nat \ {0} /\ Columns \in Nat \ {0} /\ Depths \in Nat \ {0}
        /\ kernelwidth \in Nat \ {0}
    BY DEF Sized
  <2>2. Plane = Rows * Columns /\ Plane \in Nat \ {0}
    BY <2>1 DEF Plane
  <2>3. Depths * Plane \in Nat
    BY <2>1, <2>2
  <2>4. hot \in 0 .. Depths * Plane - 1 /\ a \in 0 .. Depths * Plane - 1
    BY DEF Sized, Address
  <2>5. (kernelwidth - 1) \div 2 \in Int
    BY <2>1
  <2> QED
    BY <2>1, <2>2, <2>3, <2>4, <2>5 DEF pad
<1>1. PICK hz \in Nat, hy \in 0 .. Rows - 1, hx \in 0 .. Columns - 1 :
         hot = hz * (Rows * Columns) + hy * Columns + hx
  <2>1. hot \in Nat
    BY <1>0
  <2>2. Rows \in Nat \ {0} /\ Columns \in Nat \ {0}
    BY <1>0
  <2> QED
    BY <2>1, <2>2, HasDigits, ZenonT(40)
<1>2. PICK az \in Nat, ay \in 0 .. Rows - 1, ax \in 0 .. Columns - 1 :
         a = az * (Rows * Columns) + ay * Columns + ax
  <2>1. a \in Nat
    BY <1>0
  <2>2. Rows \in Nat \ {0} /\ Columns \in Nat \ {0}
    BY <1>0
  <2> QED
    BY <2>1, <2>2, HasDigits, ZenonT(40)
<1>3. hot \div Plane = hz /\ (hot % Plane) \div Columns = hy /\ hot % Columns = hx
  BY <1>0, <1>1, Digits
<1>4. a \div Plane = az /\ (a % Plane) \div Columns = ay /\ a % Columns = ax
  <2> DEFINE n == az * (Rows * Columns) + ay * Columns + ax
  <2>1. /\ n \div (Rows * Columns) = az /\ (n % (Rows * Columns)) \div Columns = ay
        /\ n % Columns = ax
    <3>1. Rows \in Nat \ {0} /\ Columns \in Nat \ {0} /\ az \in Int
      BY <1>0
    <3> QED
      BY <3>1, Digits
  <2>2. a = n /\ Plane = Rows * Columns
    BY <1>0, <1>2
  <2> HIDE DEF n
  <2> QED
    BY <2>1, <2>2
<1>5. kz \in Int /\ ky \in Int /\ kx \in Int
  <2>1. k \in Nat
    BY DEF total_kernel_size
  <2>2. kernelwidth * kernelwidth \in Nat \ {0}
    BY <1>0
  <2> QED
    BY <1>0, <2>1, <2>2, DivMod
<1>6. hz < Depths
  <2>1. SUFFICES ASSUME Depths <= hz PROVE FALSE
    BY <1>0, <1>1
  <2>2. Depths * Plane <= hz * Plane
    BY <1>0, <1>1, <2>1, Monotone
  <2>3. hz * Plane <= hot
    <3>1. hy * Columns + hx \in Nat /\ hz * Plane \in Nat
      BY <1>0, <1>1
    <3>2. hot = hz * Plane + (hy * Columns + hx)
      BY <1>0, <1>1
    <3> QED
      BY <3>1, <3>2
  <2>4. Depths * Plane \in Int /\ hz * Plane \in Int
    BY <1>0, <1>1
  <2> QED
    BY <1>0, <2>2, <2>3, <2>4
<1>7. nz = az - pad + kz /\ ny = ay - pad + ky /\ nx = ax - pad + kx
  BY <1>4
<1>8. dz(a) = hz - az + pad /\ dy(a) = hy - ay + pad /\ dx(a) = hx - ax + pad
  BY <1>3, <1>4 DEF dz, dy, dx
<1>9. temparr(a, k) = IF Inside(nz, ny, nx)
                      THEN inputArr(nz * Plane + ny * Columns + nx) ELSE 0
  BY DEF temparr
<1> HIDE DEF kz, ky, kx, nz, ny, nx
<1>10. /\ nz \in Int /\ ny \in Int /\ nx \in Int
       /\ kz = dz(a) <=> nz = hz
       /\ ky = dy(a) <=> ny = hy
       /\ kx = dx(a) <=> nx = hx
  BY <1>0, <1>1, <1>2, <1>5, <1>7, <1>8
<1>11. CASE nz = hz /\ ny = hy /\ nx = hx
  <2>1. Inside(nz, ny, nx)
    BY <1>0, <1>1, <1>6, <1>11 DEF Inside
  <2>2. nz * Plane + ny * Columns + nx = hot
    BY <1>0, <1>1, <1>11
  <2> QED
    BY <1>9, <1>10, <1>11, <2>1, <2>2 DEF inputArr, kz, ky, kx
<1>12. CASE ~ (nz = hz /\ ny = hy /\ nx = hx)
  <2>1. ASSUME Inside(nz, ny, nx), nz * Plane + ny * Columns + nx = hot PROVE FALSE
    <3>1. ny \in 0 .. Rows - 1 /\ nx \in 0 .. Columns - 1
      BY <1>0, <1>10, <2>1 DEF Inside
    <3>2. hot = nz * (Rows * Columns) + ny * Columns + nx
      BY <1>0, <2>1
    <3>3. hot \div Plane = nz /\ (hot % Plane) \div Columns = ny /\ hot % Columns = nx
      BY <1>0, <1>10, <3>1, <3>2, Digits
    <3> QED
      BY <1>3, <1>12, <3>3
  <2>2. temparr(a, k) = 0
    BY <1>9, <2>1 DEF inputArr
  <2> QED
    BY <1>10, <1>12, <2>2 DEF kz, ky, kx
<1> QED
  BY <1>11, <1>12

LEMMA ProductsAddUp ==
    ASSUME Sized, NEW a \in Address
    PROVE  Products(a) = Sample(a)
<1> DEFINE K == kernelwidth
           W == total_kernel_size
           Z == dz(a)
           Y == dy(a)
           X == dx(a)
           k0 == (Z * K + Y) * K + X
           Over(k) == k \div (K * K) = Z /\ (k \div K) % K = Y /\ k % K = X
<1>0. K \in Nat \ {0} /\ W \in Nat /\ W = K * (K * K)
  BY DEF Sized, total_kernel_size
<1>2. Sample(a) = IF Z \in Window /\ Y \in Window /\ X \in Window THEN k0 + 1 ELSE 0
  BY DEF Sample, Window, dz, dy, dx, kernelArr
<1>3. \A k \in 0 .. W - 1 : temparr(a, k) = IF Over(k) THEN 1 ELSE 0
  BY LaneOver
<1>4. ASSUME NEW k0c \in Nat, \A k \in 0 .. W - 1 : temparr(a, k) = IF k = k0c THEN 1 ELSE 0
      PROVE  Products(a) = IF k0c < W THEN k0c + 1 ELSE 0
  BY <1>4, OneProduct
<1>5. Window = 0 .. K - 1
  BY DEF Window
<1> HIDE DEF W, K, Z, Y, X
<1>6. ASSUME NEW z \in Int, NEW y \in 0 .. K - 1, NEW x \in 0 .. K - 1
      PROVE  LET n == z * (K * K) + y * K + x
             IN  /\ n \div (K * K) = z /\ (n \div K) % K = y /\ n % K = x
                 /\ y * K + x \in 0 .. K * K - 1
  <2> DEFINE n == z * (K * K) + y * K + x
  <2>1. K \in Nat \ {0}
    BY <1>0
  <2>2. /\ n \div (K * K) = z
        /\ (n % (K * K)) \div K = y /\ (n \div K) % K = y
        /\ n % K = x
        /\ y * K + x \in 0 .. K * K - 1
    BY <2>1, Digits
  <2> HIDE DEF n
  <2>3. n \div (K * K) = z /\ (n \div K) % K = y /\ n % K = x
        /\ y * K + x \in 0 .. K * K - 1
    BY <2>2
  <2> QED
    BY <2>3 DEF n
<1>7. ASSUME NEW k \in 0 .. W - 1
      PROVE  /\ k \div (K * K) \in 0 .. K - 1 /\ (k \div K) % K \in 0 .. K - 1
             /\ k % K \in 0 .. K - 1
             /\ k = (k \div (K * K)) * (K * K) + ((k \div K) % K) * K + (k % K)
  <2>0. k \in Nat
    BY <1>0
  <2>1. PICK z \in Nat, y \in 0 .. K - 1, x \in 0 .. K - 1 : k = z * (K * K) + y * K + x
    BY <1>0, <2>0, HasDigits, Zenon
  <2>2. k \div (K * K) = z /\ (k \div K) % K = y /\ k % K = x /\ y * K + x \in 0 .. K * K - 1
    BY <1>6, <2>1
  <2>3. z < K
    <3>1. SUFFICES ASSUME K <= z PROVE FALSE
      BY <1>0, <2>1
    <3>2. K * K \in Nat /\ z * (K * K) \in Nat
      BY <1>0, <2>1
    <3>3. K * (K * K) <= z * (K * K)
      BY <1>0, <2>1, <3>1, <3>2, Monotone
    <3>4. k = z * (K * K) + (y * K + x)
      BY <2>1, <3>2, <1>0
    <3> QED
      BY <1>0, <2>0, <2>2, <3>2, <3>3, <3>4
  <2>4. z \in 0 .. K - 1
    BY <1>0, <2>1, <2>3
  <2> QED
    BY <2>1, <2>2, <2>4, Zenon
<1>8. CASE Z \in Window /\ Y \in Window /\ X \in Window
  <2>0. Z \in 0 .. K - 1 /\ Y \in 0 .. K - 1 /\ X \in 0 .. K - 1 /\ Z \in Int
    BY <1>0, <1>5, <1>8
  <2>1. k0 = Z * (K * K) + Y * K + X
    BY <1>0, <2>0
  <2>2. Over(k0) /\ Y * K + X \in 0 .. K * K - 1
    <3> DEFINE n == Z * (K * K) + Y * K + X
    <3>1. n \div (K * K) = Z /\ (n \div K) % K = Y /\ n % K = X /\ Y * K + X \in 0 .. K * K - 1
      BY <1>6, <2>0
    <3>2. k0 = n
      BY <2>1
    <3> HIDE DEF n, k0
    <3> QED
      BY <3>1, <3>2
  <2>3. k0 \in 0 .. W - 1
    <3>1. Z * (K * K) <= (K - 1) * (K * K)
      BY <1>0, <2>0, Monotone
    <3>2. (K - 1) * (K * K) = W - K * K /\ K * K \in Nat /\ Z * (K * K) \in Nat
      BY <1>0, <2>0
    <3>3. k0 = Z * (K * K) + (Y * K + X)
      BY <1>0, <2>0, <2>1
    <3>4. \A zt, kk, w, s \in Int :
             0 <= zt /\ zt <= w - kk /\ s \in 0 .. kk - 1 => zt + s \in 0 .. w - 1
      OBVIOUS
    <3>5. Z * (K * K) \in Int /\ K * K \in Int /\ W \in Int /\ Y * K + X \in Int
          /\ 0 <= Z * (K * K) /\ Z * (K * K) <= W - K * K
      BY <1>0, <2>0, <3>1, <3>2
    <3> HIDE DEF k0
    <3> QED
      BY <2>2, <3>3, <3>4, <3>5
  <2>4. ASSUME NEW k \in 0 .. W - 1 PROVE Over(k) <=> k = k0
    <3>1. k = k0 => Over(k)
      BY <2>2
    <3>2. Over(k) => k = Z * (K * K) + Y * K + X
      BY <1>7
    <3> QED
      BY <2>1, <3>1, <3>2
  <2> HIDE DEF k0, Over
  <2>5. \A k \in 0 .. W - 1 : temparr(a, k) = IF k = k0 THEN 1 ELSE 0
    BY <1>3, <2>4
  <2>6. k0 \in Nat /\ k0 < W
    BY <1>0, <2>3
  <2>7. Products(a) = k0 + 1
    BY <1>4, <2>5, <2>6
  <2> QED
    BY <1>2, <1>8, <2>7
<1>9. CASE ~ (Z \in Window /\ Y \in Window /\ X \in Window)
  <2>1. \A k \in 0 .. W - 1 : ~ Over(k)
    BY <1>5, <1>7, <1>9
  <2> HIDE DEF k0, Over
  <2>2. \A k \in 0 .. W - 1 : temparr(a, k) = IF k = W THEN 1 ELSE 0
    BY <1>0, <1>3, <2>1
  <2>3. Products(a) = 0
    BY <1>0, <1>4, <2>2
  <2> QED
    BY <1>2, <1>9, <2>3
<1> QED
  BY <1>8, <1>9

LEMMA SumIsSample ==
    ASSUME Sized, tail = "clean", NEW a \in Address
    PROVE  Sum(a) = Sample(a)
BY ProductsAddUp DEF Sum

(* So it is the same number as long as the arrays and the lanes are. *)
Adding == \A a \in Address : Products(a) = Sample(a)

LEMMA SizedAdding == Sized => Adding
BY ProductsAddUp DEF Adding

LEMMA SumStays ==
    ASSUME Sized, UNCHANGED sizes
    PROVE  \A a \in Address : Sum(a)' = Sum(a)
<1>1. Sized => Adding
  BY SizedAdding
<1>2. Sized' => Adding'
  BY SizedAdding, PTL
<1>3. Sized'
  BY DEF Sized, sizes, Address, Plane
<1>4. Address' = Address /\ \A a \in Address : Sample(a)' = Sample(a)
  BY DEF sizes, Address, Plane, Sample, pad, kernelArr
<1>5. \A a \in Address : Products(a)' = Products(a)
  BY <1>1, <1>2, <1>3, <1>4 DEF Adding
<1>6. tempsize' = tempsize /\ total_kernel_size' = total_kernel_size /\ tail' = tail
  BY DEF sizes, tempsize, tempiter, total_kernel_size
<1> QED
  BY <1>5, <1>6 DEF Sum

-----------------------------------------------------------------------------
(* The threads and the main thread. *)

LEMMA Workers ==
    /\ MaxDiv \in Nat /\ Worker = {Cpu} \cup Team /\ Cpu \notin Team
    /\ Team = 0 .. MaxDiv - 1 /\ Cpu \in Worker
BY Conv3dAssumption DEF Worker, Team, Cpu

(* The number of outputs. *)
LEMMA Outputs ==
    ASSUME ControlInv
    PROVE  /\ Depths \in Nat \ {0} /\ Plane \in Nat \ {0} /\ Depths * Plane \in Nat \ {0}
           /\ Address = 0 .. Depths * Plane - 1
<1>1. Depths \in Nat \ {0} /\ Rows \in Nat \ {0} /\ Columns \in Nat \ {0}
  BY DEF ControlInv
<1>2. Plane \in Nat \ {0}
  BY <1>1 DEF Plane
<1> QED
  BY <1>1, <1>2 DEF Address

(* A worker's own step leaves main alone, and it neither comes nor goes.   *)
WorkerOnly(t) ==
    /\ UNCHANGED <<sizes, mpc, i>>
    /\ \/ pc[t] = "created" /\ pc' = [pc EXCEPT ![t] = "convolve"]
       \/ pc[t] = "convolve" /\ pc' = [pc EXCEPT ![t] = "ended"]
       \/ pc' = pc

LEMMA WorkSteps ==
    ASSUME NEW t, Work(t)
    PROVE  WorkerOnly(t)
BY DEF Work, RunnableStart, Convolve, ConvolveEnds, WorkerOnly

LEMMA ControlInvStep ==
    ASSUME ControlInv, [Next]_vars
    PROVE  ControlInv' /\ UNCHANGED sizes
<1>0. MaxDiv \in Nat /\ Worker = {Cpu} \cup Team /\ Cpu \notin Team /\ Team = 0 .. MaxDiv - 1
      /\ Depths * Plane \in Nat
  BY Workers, Outputs
<1>s. UNCHANGED sizes
  BY DEF Next, Main, Work, RunnableStart, Convolve, ConvolveEnds, ChooseCpu, CpuReturns,
         ChooseThreads, ChooseNothing, Create, AllCreated, Join, FreeVectors, Verify, VerifyFails, vars
<1> SUFFICES ControlInv'
  BY <1>s
<1>u. UNCHANGED <<Depths, Rows, Columns, kernelwidth, DIV, hot, Address, Plane>>
  BY <1>s DEF sizes, Address, Plane
<1> HIDE DEF Worker, Team, Cpu
<1> USE DEF ControlInv
<1>1. ASSUME NEW t \in Worker, Work(t) PROVE ControlInv'
  <2>1. WorkerOnly(t)
    BY <1>1, WorkSteps
  <2>2. \A u \in Worker : /\ pc'[u] = "none" <=> pc[u] = "none"
                          /\ pc[u] = "ended" => pc'[u] = "ended"
                          /\ pc'[u] = "created" => pc[u] = "created"
                          /\ pc[u] = "convolve" => pc'[u] \in {"convolve", "ended"}
    BY <2>1 DEF WorkerOnly
  <2>3. pc' \in [Worker -> {"none", "created", "convolve", "ended"}]
    BY <2>1 DEF WorkerOnly
  <2>4. mpc' = mpc /\ i' = i /\ Begun' = Begun
    BY <1>u, <2>1 DEF WorkerOnly, Begun
  <2>5. mpc \in {"verify", "done"} => pc' = pc
    BY <2>1 DEF WorkerOnly
  <2>6. mpc = "join" => \A u \in 0 .. i - 1 : u \in Worker
    BY <1>0
  <2> QED
    BY <1>0, <1>u, <2>2, <2>3, <2>4, <2>5, <2>6
<1>2. CASE ChooseCpu
  BY <1>0, <1>2, <1>u DEF ChooseCpu
<1>3. CASE CpuReturns
  BY <1>0, <1>3, <1>u DEF CpuReturns
<1>4. CASE ChooseThreads
  BY <1>0, <1>4, <1>u DEF ChooseThreads, Begun
<1>5. CASE ChooseNothing
  BY <1>0, <1>5, <1>u DEF ChooseNothing
<1>6. CASE Create
  <2>1. i \in Team /\ i + 1 <= DIV /\ Begun = i /\ DIV > 1 /\ i' = i + 1 /\ mpc = "create"
        /\ mpc' = "create" /\ pc' = [pc EXCEPT ![i] = "created"] /\ i # Cpu
    BY <1>0, <1>6 DEF Create, Begun
  <2>2. Begun' = i + 1
    BY <2>1 DEF Begun
  <2>3. \A t \in Team : pc'[t] = "none" <=> t >= i + 1
    BY <1>0, <2>1
  <2>4. pc'[Cpu] = "none" /\ pc' \in [Worker -> {"none", "created", "convolve", "ended"}]
    BY <1>0, <2>1
  <2> QED
    BY <1>0, <1>u, <2>1, <2>2, <2>3, <2>4
<1>7. CASE AllCreated
  BY <1>0, <1>7, <1>u DEF AllCreated, Begun
<1>8. CASE Join
  <2>1. i < DIV /\ pc[i] = "ended" /\ i' = i + 1 /\ pc' = pc /\ mpc = "join" /\ mpc' = "join"
    BY <1>8 DEF Join, Joined
  <2>2. Begun' = Begun
    BY <1>u, <2>1 DEF Begun
  <2> QED
    BY <1>0, <1>u, <2>1, <2>2
<1>9. CASE FreeVectors
  <2>1. i = DIV /\ mpc = "join" /\ mpc' = "verify" /\ i' = 0 /\ pc' = pc
    BY <1>9 DEF FreeVectors
  <2>2. \A t \in Worker : pc[t] \in {"none", "ended"}
    <3>1. ASSUME NEW t \in Team, pc[t] # "none" PROVE pc[t] = "ended"
      <4>1. t \in 0 .. i - 1
        BY <1>0, <2>1, <3>1 DEF Begun
      <4> QED
        BY <2>1, <4>1
    <3> QED
      BY <1>0, <2>1, <3>1
  <2> QED
    BY <1>0, <1>u, <2>1, <2>2
<1>10. CASE Verify \/ VerifyFails
  <2>1. /\ mpc = "verify" /\ mpc' \in {"verify", "done"} /\ pc' = pc
        /\ i' = i \/ (i # Depths * Plane /\ i' = i + 1)
    BY <1>10 DEF Verify, VerifyFails, AllCompared
  <2>2. i' \in Nat /\ i' <= Depths * Plane /\ i' <= Depths' * Plane'
    <3> DEFINE d == Depths * Plane
    <3>1. d \in Nat /\ i \in Nat /\ i <= d /\ (i' = i \/ (i # d /\ i' = i + 1))
      BY <1>0, <2>1
    <3> HIDE DEF d
    <3>2. i' \in Nat /\ i' <= d
      BY <3>1
    <3> QED
      BY <1>u, <3>2 DEF d
  <2> QED
    BY <1>0, <1>u, <2>1, <2>2
<1>11. CASE UNCHANGED vars
  BY <1>11, <1>u DEF vars, Begun
<1> HIDE DEF ControlInv
<1> QED
  BY <1>s, <1>1, <1>2, <1>3, <1>4, <1>5, <1>6, <1>7, <1>8, <1>9, <1>10, <1>11 DEF Next, Main

(* The heap's blocks are distinct, and belong to main or to one thread.    *)
LEMMA BlocksApart ==
    /\ vectors # threads
    /\ \A t, u : /\ Arg(t) \notin {vectors, threads} /\ Temp(t) \notin {vectors, threads}
                 /\ Arg(t) # Temp(u)
                 /\ Arg(t) = Arg(u) => t = u
                 /\ Temp(t) = Temp(u) => t = u
BY DEF Arg, Temp, vectors, threads

ArgBlocks  == {Arg(t) : t \in {u \in Worker : pc[u] = "created"}}
TempBlocks == {Temp(t) : t \in {u \in Worker : pc[u] = "convolve"}}
MainBlocks == IF mpc \in {"create", "join"} THEN {vectors, threads}
              ELSE IF pc[Cpu] = "convolve" THEN {vectors} ELSE {}

LEMMA BlocksSplit == Blocks = MainBlocks \cup ArgBlocks \cup TempBlocks
BY DEF Blocks, MainBlocks, ArgBlocks, TempBlocks

LEMMA HeapStep ==
    ASSUME ControlInv, ControlInv', heap = Blocks, [Next]_vars
    PROVE  heap' = Blocks'
<1>0. /\ Worker = {Cpu} \cup Team /\ Cpu \notin Team /\ Cpu \in Worker
      /\ Team = 0 .. MaxDiv - 1 /\ MaxDiv \in Nat
      /\ pc \in [Worker -> {"none", "created", "convolve", "ended"}]
      /\ heap = MainBlocks \cup ArgBlocks \cup TempBlocks
  BY Workers, BlocksSplit DEF ControlInv
<1>b. Blocks' = MainBlocks' \cup ArgBlocks' \cup TempBlocks'
  BY DEF Blocks, MainBlocks, ArgBlocks, TempBlocks
<1> SUFFICES heap' = MainBlocks' \cup ArgBlocks' \cup TempBlocks'
  BY <1>b
<1> HIDE DEF Worker, Team, Cpu
<1>1. ASSUME NEW t \in Worker, RunnableStart(t)
      PROVE  heap' = MainBlocks' \cup ArgBlocks' \cup TempBlocks'
  <2>1. /\ heap' = (heap \ {Arg(t)}) \cup {Temp(t)} /\ pc[t] = "created"
        /\ pc' = [pc EXCEPT ![t] = "convolve"] /\ mpc' = mpc
    BY <1>1 DEF RunnableStart
  <2>2. ArgBlocks' = ArgBlocks \ {Arg(t)}
    BY <1>0, <2>1, BlocksApart DEF ArgBlocks
  <2>3. TempBlocks' = TempBlocks \cup {Temp(t)}
    BY <1>0, <2>1 DEF TempBlocks
  <2>4. MainBlocks' = MainBlocks
    <3>1. t # Cpu
      BY <1>0, <2>1 DEF ControlInv
    <3> QED
      BY <1>0, <2>1, <3>1 DEF MainBlocks
  <2>5. Arg(t) \notin MainBlocks \cup TempBlocks
    BY BlocksApart DEF MainBlocks, TempBlocks
  <2> QED
    BY <1>0, <2>1, <2>2, <2>3, <2>4, <2>5
<1>2. ASSUME NEW t \in Worker, Convolve(t)
      PROVE  heap' = MainBlocks' \cup ArgBlocks' \cup TempBlocks'
  BY <1>0, <1>2 DEF Convolve, MainBlocks, ArgBlocks, TempBlocks
<1>3. ASSUME NEW t \in Worker, ConvolveEnds(t)
      PROVE  heap' = MainBlocks' \cup ArgBlocks' \cup TempBlocks'
  <2>1. /\ heap' = heap \ (IF t = Cpu THEN {vectors, Temp(t)} ELSE {Temp(t)})
        /\ pc[t] = "convolve" /\ pc' = [pc EXCEPT ![t] = "ended"] /\ mpc' = mpc
    BY <1>3 DEF ConvolveEnds
  <2>2. TempBlocks' = TempBlocks \ {Temp(t)}
    BY <1>0, <2>1, BlocksApart DEF TempBlocks
  <2>3. ArgBlocks' = ArgBlocks
    BY <1>0, <2>1 DEF ArgBlocks
  <2>4. Temp(t) \notin MainBlocks \cup ArgBlocks /\ vectors \notin ArgBlocks \cup TempBlocks
    BY BlocksApart DEF MainBlocks, ArgBlocks, TempBlocks
  <2>5. CASE t = Cpu
    <3>1. mpc \notin {"create", "join"}
      BY <2>1, <2>5 DEF ControlInv
    <3>2. MainBlocks = {vectors} /\ MainBlocks' = {}
      BY <1>0, <2>1, <2>5, <3>1 DEF MainBlocks
    <3> QED
      BY <1>0, <2>1, <2>2, <2>3, <2>4, <2>5, <3>2
  <2>6. CASE t # Cpu
    <3>1. MainBlocks' = MainBlocks
      BY <1>0, <2>1, <2>6 DEF MainBlocks
    <3> QED
      BY <1>0, <2>1, <2>2, <2>3, <2>4, <2>6, <3>1
  <2> QED
    BY <2>5, <2>6
<1>4. CASE ChooseCpu
  <2>1. \A t \in Worker : pc[t] = "none"
    BY <1>4 DEF ChooseCpu, ControlInv
  <2>2. ArgBlocks = {} /\ TempBlocks = {} /\ MainBlocks = {}
    BY <1>0, <1>4, <2>1 DEF ArgBlocks, TempBlocks, MainBlocks, ChooseCpu
  <2>3. ArgBlocks' = {} /\ TempBlocks' = {Temp(Cpu)} /\ MainBlocks' = {vectors}
    BY <1>0, <1>4, <2>1 DEF ArgBlocks, TempBlocks, MainBlocks, ChooseCpu
  <2> QED
    BY <1>0, <1>4, <2>2, <2>3 DEF ChooseCpu
<1>5. CASE CpuReturns \/ ChooseNothing \/ Verify \/ VerifyFails \/ AllCreated \/ Join
  <2>1. UNCHANGED <<heap, pc>> /\ (mpc' \in {"create", "join"} <=> mpc \in {"create", "join"})
    BY <1>5 DEF CpuReturns, ChooseNothing, Verify, VerifyFails, AllCreated, Join
  <2> QED
    BY <1>0, <2>1 DEF MainBlocks, ArgBlocks, TempBlocks
<1>6. CASE ChooseThreads
  <2>1. \A t \in Worker : pc[t] = "none"
    BY <1>6 DEF ChooseThreads, ControlInv
  <2>2. ArgBlocks = {} /\ TempBlocks = {} /\ MainBlocks = {}
    BY <1>0, <1>6, <2>1 DEF ArgBlocks, TempBlocks, MainBlocks, ChooseThreads
  <2>3. ArgBlocks' = {} /\ TempBlocks' = {} /\ MainBlocks' = {vectors, threads}
    BY <1>0, <1>6, <2>1 DEF ArgBlocks, TempBlocks, MainBlocks, ChooseThreads
  <2> QED
    BY <1>0, <1>6, <2>2, <2>3 DEF ChooseThreads
<1>7. CASE Create
  <2>1. i \in Team /\ i # Cpu /\ i \in Worker /\ pc[i] = "none"
    BY <1>0, <1>7 DEF Create, ControlInv, Begun
  <2>2. heap' = heap \cup {Arg(i)} /\ pc' = [pc EXCEPT ![i] = "created"] /\ mpc' = mpc
    BY <1>7 DEF Create
  <2>3. ArgBlocks' = ArgBlocks \cup {Arg(i)} /\ TempBlocks' = TempBlocks
    BY <1>0, <2>1, <2>2 DEF ArgBlocks, TempBlocks
  <2>4. MainBlocks' = MainBlocks
    BY <1>0, <2>1, <2>2 DEF MainBlocks
  <2> QED
    BY <1>0, <2>2, <2>3, <2>4
<1>8. CASE FreeVectors
  <2>1. /\ heap' = heap \ {threads, vectors} /\ pc' = pc /\ mpc' = "verify" /\ mpc = "join"
    BY <1>8 DEF FreeVectors
  <2>2. \A t \in Worker : pc[t] \in {"none", "ended"}
    BY <2>1 DEF ControlInv
  <2>3. ArgBlocks = {} /\ TempBlocks = {} /\ MainBlocks = {vectors, threads}
    BY <2>1, <2>2 DEF ArgBlocks, TempBlocks, MainBlocks
  <2>4. ArgBlocks' = {} /\ TempBlocks' = {} /\ MainBlocks' = {}
    BY <1>0, <2>1, <2>2 DEF ArgBlocks, TempBlocks, MainBlocks
  <2> QED
    BY <1>0, <2>1, <2>3, <2>4
<1>9. CASE UNCHANGED vars
  BY <1>0, <1>9 DEF vars, MainBlocks, ArgBlocks, TempBlocks
<1> QED
  BY <1>1, <1>2, <1>3, <1>4, <1>5, <1>6, <1>7, <1>8, <1>9 DEF Next, Main, Work

-----------------------------------------------------------------------------
(* The planes of the threads. *)

LEMMA Division ==
    ASSUME ControlInv, DIV > 1
    PROVE  /\ DIV \in Nat \ {0} /\ Depths \in Nat /\ div_width \in Nat
           /\ Depths % DIV \in 0 .. DIV - 1
           /\ DIV * div_width + (Depths % DIV) = Depths
           /\ DIV * div_width <= Depths
           /\ \A k \in 0 .. DIV - 1 :
                 /\ k * div_width \in Nat
                 /\ (k + 1) * div_width = k * div_width + div_width
                 /\ (k + 1) * div_width <= DIV * div_width
<1>1. DIV \in Nat \ {0} /\ Depths \in Nat
  <2>1. MaxDiv \in Nat
    BY Workers
  <2> QED
    BY <2>1 DEF ControlInv
<1> DEFINE R == Depths % DIV
<1>2. Depths = div_width * DIV + R /\ div_width \in Nat /\ R \in 0 .. DIV - 1
  BY <1>1, DivMod DEF div_width
<1> HIDE DEF R
<1>3. DIV * div_width + R = Depths /\ DIV * div_width <= Depths
  BY <1>1, <1>2
<1>4. ASSUME NEW k \in 0 .. DIV - 1
      PROVE  /\ k * div_width \in Nat
             /\ (k + 1) * div_width = k * div_width + div_width
             /\ (k + 1) * div_width <= DIV * div_width
  <2>1. k + 1 \in Int /\ k + 1 <= DIV /\ DIV \in Int /\ k \in Nat
    BY <1>1
  <2>2. (k + 1) * div_width <= DIV * div_width
    BY <1>2, <2>1, Monotone
  <2> QED
    BY <1>2, <2>1, <2>2
<1> QED
  BY <1>1, <1>2, <1>3, <1>4 DEF R

(* Where the planes of the next thread end. *)
LEMMA NextPlanes ==
    ASSUME ControlInv, PlanesInv, mpc = "create", i < DIV
    PROVE  /\ NextTo(i, to) \in 0 .. Depths
           /\ (i + 1) * div_width <= NextTo(i, to)
           /\ i = DIV - 1 => NextTo(i, to) = Depths
           /\ \/ /\ i + div_width <= Depths
                 /\ NextTo(i, to) = (i + 1) * div_width
                                    + (IF i + 1 < Depths % DIV THEN i + 1 ELSE Depths % DIV)
              \/ i + div_width > Depths /\ NextTo(i, to) = Depths
<1> DEFINE R == Depths % DIV
           w == div_width
           p == i * w
           q == (i + 1) * w
           d == DIV * w
<1>1. /\ DIV \in Nat \ {0} /\ Depths \in Nat /\ w \in Nat /\ R \in 0 .. DIV - 1
      /\ d + R = Depths /\ i \in 0 .. DIV - 1
      /\ p \in Nat /\ q = p + w /\ q <= d /\ d \in Nat
  <2>1. DIV > 1 /\ i \in Nat
    BY DEF ControlInv
  <2>2. i \in 0 .. DIV - 1
    BY <2>1, Division
  <2> QED
    BY <2>1, <2>2, Division
<1>2. i = DIV - 1 => q = d
  BY <1>1
<1>3. \/ to = p + (IF i < R THEN i ELSE R)
      \/ i - 1 + w > Depths /\ to = Depths
  BY DEF PlanesInv
<1>4. NextTo(i, to) = IF i + w > Depths THEN Depths ELSE to + w + (IF i < R THEN 1 ELSE 0)
  BY DEF NextTo
<1> SUFFICES /\ NextTo(i, to) \in 0 .. Depths
             /\ q <= NextTo(i, to)
             /\ i = DIV - 1 => NextTo(i, to) = Depths
             /\ \/ /\ i + w <= Depths
                   /\ NextTo(i, to) = q + (IF i + 1 < R THEN i + 1 ELSE R)
                \/ i + w > Depths /\ NextTo(i, to) = Depths
  OBVIOUS
<1> HIDE DEF R, w, p, q, d
<1>5. CASE i + w > Depths
  BY <1>1, <1>4, <1>5
<1>6. CASE i + w <= Depths
  <2>1. to = p + (IF i < R THEN i ELSE R)
    BY <1>1, <1>3, <1>6
  <2>2. NextTo(i, to) = q + (IF i + 1 < R THEN i + 1 ELSE R)
    BY <1>1, <1>4, <1>6, <2>1
  <2> QED
    BY <1>1, <1>2, <1>6, <2>2
<1> QED
  BY <1>1, <1>5, <1>6

LEMMA PlanesStep ==
    ASSUME ControlInv, ControlInv', PlanesInv, [Next]_vars
    PROVE  PlanesInv'
<1>0. /\ Worker = {Cpu} \cup Team /\ Cpu \notin Team /\ Cpu \in Worker
      /\ Team = 0 .. MaxDiv - 1 /\ MaxDiv \in Nat
      /\ pc \in [Worker -> {"none", "created", "convolve", "ended"}]
      /\ at \in [Worker -> Nat] /\ z_to \in [Worker -> 0 .. Depths]
      /\ Depths \in Nat \ {0} /\ Plane \in Nat \ {0}
  BY Workers, Outputs DEF ControlInv, PlanesInv
<1>u. UNCHANGED <<Depths, DIV, Plane, div_width>>
  BY ControlInvStep DEF sizes, Plane, div_width
<1> HIDE DEF Worker, Team, Cpu
<1>1. ASSUME NEW t \in Worker, Work(t) PROVE PlanesInv'
  <2>1. UNCHANGED <<mpc, i, from, to, z_to>> /\ at' \in [Worker -> Nat]
    BY <1>0, <1>1, SMTT(20) DEF Work, RunnableStart, Convolve, ConvolveEnds
  <2>2. /\ \A u \in Worker : pc'[u] = "none" <=> pc[u] = "none"
        /\ \A u \in Worker : pc[u] = "none" => at'[u] = at[u]
    BY <1>0, <1>1 DEF Work, RunnableStart, Convolve, ConvolveEnds
  <2> QED
    BY <1>0, <1>u, <2>1, <2>2 DEF PlanesInv
<1>2. CASE ChooseCpu
  <2>1. /\ mpc' = "cpu" /\ z_to' = [z_to EXCEPT ![Cpu] = Depths] /\ at' = at
        /\ pc' = [pc EXCEPT ![Cpu] = "convolve"]
    BY <1>2 DEF ChooseCpu
  <2> QED
    BY <1>0, <1>u, <2>1 DEF PlanesInv
<1>3. CASE \/ CpuReturns \/ ChooseNothing \/ FreeVectors \/ Verify \/ VerifyFails
           \/ AllCreated \/ Join
  <2>1. UNCHANGED <<pc, at, z_to>> /\ mpc' # "create"
    BY <1>3 DEF CpuReturns, ChooseNothing, FreeVectors, Verify, VerifyFails, AllCreated, Join
  <2> QED
    BY <1>0, <1>u, <2>1 DEF PlanesInv
<1>4. CASE ChooseThreads
  <2>1. /\ DIV > 1 /\ i = 0 /\ i' = 0 /\ UNCHANGED <<pc, at, z_to>>
        /\ from' = -div_width /\ to' = 0
    BY <1>4 DEF ChooseThreads, ControlInv
  <2>2. div_width \in Nat /\ Depths % DIV \in 0 .. DIV - 1
    BY <2>1, Division
  <2>3. from' = (i' - 1) * div_width
    BY <2>1, <2>2
  <2>4. to' = i' * div_width + (IF i' < Depths % DIV THEN i' ELSE Depths % DIV)
    BY <2>1, <2>2
  <2> QED
    BY <1>0, <1>u, <2>1, <2>3, <2>4 DEF PlanesInv
<1>5. CASE Create
  <2>1. /\ DIV > 1 /\ i \in Team /\ i # Cpu /\ i \in Worker /\ i \in 0 .. DIV - 1
        /\ pc[Cpu] = "none" /\ mpc = "create" /\ i < DIV
    BY <1>0, <1>5 DEF Create, ControlInv, Begun
  <2>2. /\ from' = from + div_width /\ to' = NextTo(i, to)
        /\ pc' = [pc EXCEPT ![i] = "created"]
        /\ at' = [at EXCEPT ![i] = (from + div_width) * Plane]
        /\ z_to' = [z_to EXCEPT ![i] = NextTo(i, to)]
        /\ i' = i + 1 /\ mpc' = mpc
    BY <1>5 DEF Create
  <2>3. div_width \in Nat /\ i * div_width \in Nat /\ from = (i - 1) * div_width
    BY <2>1, Division DEF PlanesInv
  <2>4. from + div_width = i * div_width /\ (i * div_width) * Plane \in Nat
    BY <1>0, <2>1, <2>3
  <2>5. /\ NextTo(i, to) \in 0 .. Depths
        /\ (i + 1) * div_width <= NextTo(i, to)
        /\ i = DIV - 1 => NextTo(i, to) = Depths
    BY <2>1, NextPlanes
  <2>6. from' = (i' - 1) * div_width
    BY <2>1, <2>2, <2>4
  <2>7. \/ to' = i' * div_width + (IF i' < Depths % DIV THEN i' ELSE Depths % DIV)
        \/ i' > 0 /\ i' - 1 + div_width > Depths /\ to' = Depths
    <3>1. i' - 1 = i /\ i' > 0
      BY <2>1, <2>2
    <3> QED
      BY <2>1, <2>2, <3>1, NextPlanes
  <2>8. at' \in [Worker -> Nat] /\ z_to' \in [Worker -> 0 .. Depths] /\ at'[Cpu] = at[Cpu]
    BY <1>0, <2>1, <2>2, <2>4, <2>5
  <2>9. \A t \in Team : pc'[t] # "none" =>
           /\ DIV > 1 /\ t < DIV /\ (t + 1) * div_width <= z_to'[t]
           /\ t = DIV - 1 => z_to'[t] = Depths
    <3>1. ASSUME NEW t \in Team, t # i PROVE pc'[t] = pc[t] /\ z_to'[t] = z_to[t]
      BY <1>0, <2>2, <3>1
    <3>2. pc'[i] # "none" /\ z_to'[i] = NextTo(i, to)
      BY <1>0, <2>1, <2>2
    <3> QED
      BY <2>1, <2>5, <3>1, <3>2 DEF PlanesInv
  <2> QED
    BY <1>0, <1>u, <2>1, <2>2, <2>6, <2>7, <2>8, <2>9 DEF PlanesInv
<1>6. CASE UNCHANGED vars
  BY <1>u, <1>6 DEF vars, PlanesInv
<1> QED
  BY <1>1, <1>2, <1>3, <1>4, <1>5, <1>6 DEF Next, Main

-----------------------------------------------------------------------------
(* The outputs. *)

(* A step that leaves what was written as it was, or writes another sum. *)
Keeps == /\ Address' = Address /\ DOMAIN outputArr' = Address
         /\ \A a \in Address : Sum(a)' = Sum(a) /\ outputArr'[a] \in {outputArr[a], Sum(a)}

LEMMA KeepsWritten ==
    ASSUME Keeps, NEW f, NEW n, Written(f, n)
    PROVE  \A a \in Address : f <= a /\ a < n => outputArr'[a] = Sum(a)'
BY DEF Keeps, Written

LEMMA Same ==
    ASSUME ControlInv, ControlInv', OutputInv, [Next]_vars, outputArr' = outputArr
    PROVE  Keeps
<1>1. UNCHANGED sizes
  BY ControlInvStep
<1>2. Sized /\ Address' = Address
  BY <1>1 DEF ControlInv, Sized, sizes, Address, Plane
<1> QED
  BY <1>1, <1>2, SumStays DEF Keeps, OutputInv

LEMMA OutputStep ==
    ASSUME ControlInv, ControlInv', PlanesInv, OutputInv, [Next]_vars
    PROVE  OutputInv'
<1>0. /\ Worker = {Cpu} \cup Team /\ Cpu \notin Team /\ Cpu \in Worker
      /\ Team = 0 .. MaxDiv - 1 /\ MaxDiv \in Nat
      /\ pc \in [Worker -> {"none", "created", "convolve", "ended"}]
      /\ at \in [Worker -> Nat] /\ z_to \in [Worker -> 0 .. Depths]
      /\ Depths \in Nat \ {0} /\ Plane \in Nat \ {0} /\ Depths * Plane \in Nat \ {0}
      /\ Address = 0 .. Depths * Plane - 1
  BY Workers, Outputs DEF ControlInv, PlanesInv
<1>u. UNCHANGED <<Depths, DIV, Plane, div_width, sizes, Address>>
  BY ControlInvStep DEF sizes, Plane, div_width, Address
<1>f. \A t \in Worker : First(t)' * Plane' = First(t) * Plane
  BY <1>u DEF First
<1>s. Sized
  BY DEF ControlInv, Sized
<1> HIDE DEF Worker, Team, Cpu
(* It is enough to look at who has written what. *)
<1>k. ASSUME Keeps,
             \A t \in Worker : pc'[t] # "none" =>
                /\ First(t) * Plane <= at'[t]
                /\ \A a \in Address : First(t) * Plane <= a /\ a < at'[t] => outputArr'[a] = Sum(a)
                /\ pc'[t] = "ended" => at'[t] >= z_to'[t] * Plane,
             mpc' = "join" =>
                /\ \A a \in Address : 0 <= a /\ a < i' * div_width * Plane => outputArr'[a] = Sum(a)
                /\ i' = DIV => \A a \in Address : 0 <= a /\ a < Depths * Plane => outputArr'[a] = Sum(a),
             mpc' \in {"verify", "done"} /\ DIV >= 1 =>
                \A a \in Address : 0 <= a /\ a < Depths * Plane => outputArr'[a] = Sum(a)
      PROVE  OutputInv'
  <2>1. \A a \in Address : outputArr'[a] \in {Unwritten, Sum(a)} /\ Sum(a)' = Sum(a)
    BY <1>k DEF Keeps, OutputInv
  <2>2. DOMAIN outputArr' = Address /\ Address' = Address /\ Unwritten' = Unwritten
    BY <1>k DEF Keeps, Unwritten
  <2> QED
    BY <1>k, <1>u, <1>f, <2>1, <2>2, Zenon DEF OutputInv, Written
<1>1. ASSUME NEW t \in Worker, Work(t) PROVE OutputInv'
  <2>1. UNCHANGED <<mpc, i, z_to>>
    BY <1>1 DEF Work, RunnableStart, Convolve, ConvolveEnds
  <2>2. CASE Convolve(t)
    <3>1. /\ pc[t] = "convolve" /\ at[t] < z_to[t] * Plane /\ pc' = pc
          /\ outputArr' = [outputArr EXCEPT ![at[t]] = Sum(at[t])]
          /\ at' = [at EXCEPT ![t] = @ + 1]
      BY <2>2 DEF Convolve
    <3>2. at[t] \in Address
      <4>1. z_to[t] * Plane <= Depths * Plane
        BY <1>0, Monotone
      <4>2. z_to[t] * Plane \in Int
        BY <1>0
      <4> QED
        BY <1>0, <3>1, <4>1, <4>2
    <3>3. Keeps
      BY <1>s, <1>u, <3>1, SumStays DEF Keeps, OutputInv
    <3>4. outputArr'[at[t]] = Sum(at[t])
      BY <3>1, <3>2 DEF OutputInv
    <3>5. ASSUME NEW u \in Worker, pc'[u] # "none"
          PROVE  /\ First(u) * Plane <= at'[u]
                 /\ \A a \in Address : First(u) * Plane <= a /\ a < at'[u] => outputArr'[a] = Sum(a)
                 /\ pc'[u] = "ended" => at'[u] >= z_to'[u] * Plane
      <4>1. /\ First(u) * Plane <= at[u]
            /\ \A a \in Address : First(u) * Plane <= a /\ a < at[u] => outputArr'[a] = Sum(a)
            /\ pc[u] = "ended" => at[u] >= z_to[u] * Plane
        BY <3>1, <3>3, <3>5 DEF OutputInv, Written, Keeps
      <4>2. CASE u # t
        BY <1>0, <2>1, <3>1, <4>1, <4>2
      <4>3. CASE u = t
        <5>1. at'[u] = at[u] + 1 /\ at[u] \in Nat
          BY <1>0, <3>1, <4>3
        <5>2. First(u) * Plane \in Int
          <6>1. CASE u = Cpu
            BY <1>0, <6>1 DEF First
          <6>2. CASE u # Cpu
            <7>1. u \in Team /\ DIV > 1 /\ u \in Int
              BY <1>0, <3>1, <4>3, <6>2 DEF PlanesInv
            <7>2. div_width \in Int
              BY <7>1, Division
            <7> QED
              BY <1>0, <6>2, <7>1, <7>2 DEF First
          <6> QED
            BY <6>1, <6>2
        <5>3. \A a \in Address : a < at[u] + 1 => a < at[u] \/ a = at[u]
          BY <1>0, <5>1
        <5> QED
          BY <3>1, <3>4, <4>1, <4>3, <5>1, <5>2, <5>3
      <4> QED
        BY <4>2, <4>3
    <3>6. /\ mpc = "join" => /\ \A a \in Address : 0 <= a /\ a < i * div_width * Plane =>
                                   outputArr'[a] = Sum(a)
                             /\ i = DIV => \A a \in Address : 0 <= a /\ a < Depths * Plane =>
                                   outputArr'[a] = Sum(a)
          /\ mpc \in {"verify", "done"} /\ DIV >= 1 =>
                \A a \in Address : 0 <= a /\ a < Depths * Plane => outputArr'[a] = Sum(a)
      BY <3>3 DEF OutputInv, Written, Keeps
    <3> QED
      BY <1>k, <2>1, <3>3, <3>5, <3>6
  <2>3. CASE RunnableStart(t) \/ ConvolveEnds(t)
    <3>1. /\ outputArr' = outputArr /\ at' = at
          /\ \/ pc[t] = "created" /\ pc' = [pc EXCEPT ![t] = "convolve"]
             \/ /\ pc[t] = "convolve" /\ pc' = [pc EXCEPT ![t] = "ended"]
                /\ at[t] >= z_to[t] * Plane
      BY <2>3 DEF RunnableStart, ConvolveEnds
    <3>2. Keeps
      BY <3>1, Same
    <3>3. \A u \in Worker : pc'[u] # "none" =>
             pc[u] # "none" /\ (pc'[u] = "ended" => pc[u] = "ended" \/ at[u] >= z_to[u] * Plane)
      BY <1>0, <3>1
    <3> QED
      BY <1>k, <2>1, <3>1, <3>2, <3>3 DEF OutputInv, Written
  <2> QED
    BY <1>1, <2>2, <2>3 DEF Work
<1>2. CASE Main \/ UNCHANGED vars
  <2>1. outputArr' = outputArr
    BY <1>2 DEF Main, ChooseCpu, CpuReturns, ChooseThreads, ChooseNothing, Create, AllCreated,
                Join, FreeVectors, Verify, VerifyFails, vars
  <2>2. Keeps
    BY <2>1, Same
  <2>3. CASE ChooseCpu
    <3>1. /\ mpc' = "cpu" /\ at' = at /\ pc' = [pc EXCEPT ![Cpu] = "convolve"]
          /\ \A t \in Worker : pc[t] = "none"
      BY <2>3 DEF ChooseCpu, ControlInv
    <3>2. First(Cpu) * Plane = 0 /\ at[Cpu] = 0
      BY <1>0, <3>1 DEF First, PlanesInv
    <3>3. \A t \in Worker : pc'[t] # "none" => t = Cpu /\ pc'[t] = "convolve"
      BY <1>0, <3>1
    <3>4. \A a \in Address : ~ (a < 0)
      BY <1>0
    <3> QED
      BY <1>k, <2>2, <3>1, <3>2, <3>3, <3>4
  <2>4. CASE CpuReturns
    <3>1. /\ mpc = "cpu" /\ mpc' = "verify" /\ UNCHANGED <<pc, at, z_to>> /\ pc[Cpu] = "ended"
      BY <2>4 DEF CpuReturns
    <3>2. z_to[Cpu] = Depths /\ at[Cpu] >= Depths * Plane /\ First(Cpu) * Plane = 0
      BY <1>0, <3>1 DEF PlanesInv, OutputInv, First
    <3>3. \A a \in Address : a < at[Cpu] /\ 0 <= a
      BY <1>0, <3>2
    <3>4. \A a \in Address : outputArr[a] = Sum(a)
      BY <1>0, <3>1, <3>2, <3>3 DEF OutputInv, Written
    <3> QED
      BY <1>k, <2>1, <2>2, <3>1, <3>4 DEF OutputInv, Written
  <2>5. CASE ChooseThreads \/ ChooseNothing
    <3>1. UNCHANGED <<pc, at, z_to>> /\ mpc' \in {"create", "verify"} /\ (mpc' = "verify" => DIV < 1)
          /\ DIV \in Nat
      BY <1>0, <2>5 DEF ChooseThreads, ChooseNothing, ControlInv
    <3> QED
      BY <1>k, <2>1, <2>2, <3>1 DEF OutputInv, Written
  <2>6. CASE Create
    <3>1. /\ DIV > 1 /\ i \in Team /\ i # Cpu /\ i \in Worker /\ i \in 0 .. DIV - 1
          /\ mpc = "create"
      BY <1>0, <2>6 DEF Create, ControlInv, Begun
    <3>2. /\ at' = [at EXCEPT ![i] = (from + div_width) * Plane]
          /\ pc' = [pc EXCEPT ![i] = "created"] /\ mpc' = mpc
          /\ z_to' = [z_to EXCEPT ![i] = NextTo(i, to)]
      BY <2>6 DEF Create
    <3>3. from + div_width = i * div_width /\ First(i) = i * div_width /\ i * div_width \in Nat
      BY <3>1, Division DEF PlanesInv, First
    <3>4. at'[i] = First(i) * Plane /\ First(i) * Plane \in Nat /\ pc'[i] = "created"
      BY <1>0, <3>1, <3>2, <3>3
    <3>5. \A u \in Worker : u # i => pc'[u] = pc[u] /\ at'[u] = at[u] /\ z_to'[u] = z_to[u]
      BY <1>0, <3>2
    <3>6. \A a \in Address, n \in Nat : n <= a => ~ (a < n)
      BY <1>0
    <3>7. First(i) * Plane <= at'[i] /\ \A a \in Address : ~ (First(i) * Plane <= a /\ a < at'[i])
      BY <3>4, <3>6
    <3> QED
      BY <1>k, <2>1, <2>2, <3>1, <3>2, <3>4, <3>5, <3>7 DEF OutputInv, Written
  <2>7. CASE AllCreated
    <3>1. /\ UNCHANGED <<pc, at, z_to>> /\ mpc' = "join" /\ i' = 0 /\ i = DIV /\ DIV > 1
      BY <2>7 DEF AllCreated, ControlInv
    <3>2. i' * div_width * Plane = 0 /\ i' # DIV
      BY <1>0, <3>1, Division
    <3>3. \A a \in Address : ~ (a < 0)
      BY <1>0
    <3> QED
      BY <1>k, <2>1, <2>2, <3>1, <3>2, <3>3 DEF OutputInv, Written
  <2>8. CASE Join
    <3>1. /\ UNCHANGED <<pc, at, z_to>> /\ mpc = "join" /\ mpc' = "join" /\ i < DIV /\ i' = i + 1
          /\ pc[i] = "ended" /\ DIV > 1 /\ i \in 0 .. DIV - 1 /\ i \in Team /\ i # Cpu
          /\ i \in Worker
      <4>1. /\ UNCHANGED <<pc, at, z_to>> /\ mpc = "join" /\ mpc' = "join" /\ i < DIV
            /\ i' = i + 1 /\ pc[i] = "ended"
        BY <2>8 DEF Join, Joined
      <4>2. i \in Nat /\ DIV \in 0 .. MaxDiv /\ DIV > 1
        BY <4>1, Zenon DEF ControlInv
      <4>3. i \in 0 .. DIV - 1 /\ i \in Team
        BY <1>0, <4>1, <4>2
      <4> QED
        BY <1>0, <4>1, <4>2, <4>3
    <3>2. First(i) = i * div_width /\ at[i] >= z_to[i] * Plane /\ (i + 1) * div_width <= z_to[i]
          /\ (i = DIV - 1 => z_to[i] = Depths)
      BY <3>1 DEF First, OutputInv, PlanesInv
    <3>d. i * div_width \in Int /\ (i + 1) * div_width \in Int /\ z_to[i] \in Int /\ at[i] \in Int
      <4>1. div_width \in Int /\ i * div_width \in Int
            /\ (i + 1) * div_width = i * div_width + div_width
        BY <3>1, Division
      <4> QED
        BY <1>0, <3>1, <4>1
    <3>3. /\ \A a \in Address : 0 <= a /\ a < i * div_width * Plane => outputArr[a] = Sum(a)
          /\ \A a \in Address : i * div_width * Plane <= a /\ a < at[i] => outputArr[a] = Sum(a)
      <4>1. Written(0, i * div_width * Plane)
        BY <3>1 DEF OutputInv
      <4>2. Written(First(i) * Plane, at[i])
        BY <3>1 DEF OutputInv
      <4> QED
        BY <3>2, <4>1, <4>2, Zenon DEF Written
    <3>a. \A a \in Address : a \in Int
      BY <1>0
    <3>4. \A a \in Address : 0 <= a /\ a < at[i] => outputArr[a] = Sum(a)
      <4> DEFINE p == i * div_width * Plane
      <4>1. p \in Int
        BY <1>0, <3>d
      <4>2. /\ \A a \in Address : 0 <= a /\ a < p => outputArr[a] = Sum(a)
            /\ \A a \in Address : p <= a /\ a < at[i] => outputArr[a] = Sum(a)
        BY <3>3
      <4> HIDE DEF p
      <4> QED
        BY <3>a, <3>d, <4>1, <4>2
    <3>5. (i + 1) * div_width * Plane <= at[i]
      <4> DEFINE p == (i + 1) * div_width
      <4>1. p \in Int /\ Plane \in Nat /\ p <= z_to[i]
        BY <1>0, <3>2, <3>d
      <4> HIDE DEF p
      <4>2. p * Plane <= z_to[i] * Plane
        BY <3>d, <4>1, Monotone
      <4>3. p * Plane \in Int /\ z_to[i] * Plane \in Int
        BY <3>d, <4>1
      <4>4. p * Plane <= at[i]
        BY <3>2, <3>d, <4>2, <4>3
      <4> QED
        BY <4>4 DEF p
    <3>6. \A a \in Address : 0 <= a /\ a < i' * div_width * Plane => outputArr[a] = Sum(a)
      <4> DEFINE p == (i + 1) * div_width * Plane
      <4>1. p \in Int /\ p <= at[i]
        BY <1>0, <3>5, <3>d
      <4>2. i' * div_width * Plane = p
        BY <3>1
      <4> HIDE DEF p
      <4>3. \A a \in Address : 0 <= a /\ a < p => outputArr[a] = Sum(a)
        BY <3>4, <3>a, <3>d, <4>1
      <4> QED
        BY <4>2, <4>3, Zenon
    <3>7. i' = DIV => \A a \in Address : 0 <= a /\ a < Depths * Plane => outputArr[a] = Sum(a)
      <4>1. i' = DIV => at[i] >= Depths * Plane
        BY <3>1, <3>2
      <4> QED
        BY <1>0, <3>1, <3>4, <4>1
    <3> QED
      BY <1>k, <2>1, <2>2, <3>1, <3>6, <3>7 DEF OutputInv, Written
  <2>9. CASE FreeVectors
    <3>1. UNCHANGED <<pc, at, z_to>> /\ mpc' = "verify" /\ mpc = "join" /\ i = DIV
      BY <2>9 DEF FreeVectors
    <3> QED
      BY <1>k, <2>1, <2>2, <3>1 DEF OutputInv, Written
  <2>10. CASE Verify \/ VerifyFails
    <3>1. UNCHANGED <<pc, at, z_to>> /\ mpc' \in {"verify", "done"} /\ mpc = "verify"
      BY <2>10 DEF Verify, VerifyFails
    <3> QED
      BY <1>k, <2>1, <2>2, <3>1 DEF OutputInv, Written
  <2>11. CASE UNCHANGED vars
    <3>1. UNCHANGED <<pc, at, z_to, mpc, i>>
      BY <2>11 DEF vars
    <3> QED
      BY <1>k, <2>1, <2>2, <3>1 DEF OutputInv, Written
  <2> QED
    BY <1>2, <2>3, <2>4, <2>5, <2>6, <2>7, <2>8, <2>9, <2>10, <2>11 DEF Main
<1> QED
  BY <1>1, <1>2 DEF Next

-----------------------------------------------------------------------------
(* The verification, and the invariant. *)

LEMMA VerdictStep ==
    ASSUME ControlInv, OutputInv, VerdictInv, [Next]_vars
    PROVE  VerdictInv'
<1>0. /\ Depths * Plane \in Nat \ {0} /\ Address = 0 .. Depths * Plane - 1
      /\ DIV \in Nat /\ Sized
  BY Workers, Outputs DEF ControlInv, Sized
<1>u. tail' = tail /\ DIV' = DIV
  BY ControlInvStep DEF sizes
<1>1. CASE Verify
  <2>1. tail = "clean" /\ DIV >= 1 => Close(i) \/ AllCompared(i)
    <3>1. SUFFICES ASSUME tail = "clean", DIV >= 1, ~ AllCompared(i) PROVE Close(i)
      OBVIOUS
    <3>2. mpc = "verify" /\ i \in Nat /\ i <= Depths * Plane /\ i # Depths * Plane
      BY <1>1, <3>1 DEF Verify, AllCompared, ControlInv
    <3>3. i \in Address /\ 0 <= i /\ i < Depths * Plane
      BY <1>0, <3>2
    <3>4. outputArr[i] = Sum(i)
      BY <3>1, <3>2, <3>3 DEF OutputInv, Written
    <3>5. Sum(i) = Sample(i)
      BY <1>0, <3>1, <3>3, SumIsSample
    <3> QED
      BY <3>4, <3>5 DEF Close
  <2>2. DIV \in Nat
    BY <1>0
  <2>3. verdict' \in {verdict, "equal"} \/ (~ AllCompared(i) /\ ~ Close(i))
    BY <1>1 DEF Verify
  <2>4. ~ (tail = "clean" /\ DIV >= 1) => tail # "clean" \/ DIV < 1
    BY <2>2
  <2> QED
    BY <1>u, <2>1, <2>3, <2>4 DEF VerdictInv
<1>2. CASE ~ Verify
  <2>1. verdict' \in {verdict, "error"}
    BY <1>2 DEF VerifyFails, Next, Main, Work, RunnableStart, Convolve, ConvolveEnds, ChooseCpu, CpuReturns,
                ChooseThreads, ChooseNothing, Create, AllCreated, Join, FreeVectors, vars
  <2> QED
    BY <1>u, <2>1 DEF VerdictInv
<1> QED
  BY <1>1, <1>2

LEMMA ConvInvInit == Init => ConvInv
<1> SUFFICES ASSUME Init PROVE ConvInv
  OBVIOUS
<1>0. /\ Worker = {Cpu} \cup Team /\ Cpu \notin Team /\ Cpu \in Worker
      /\ Team = 0 .. MaxDiv - 1 /\ MaxDiv \in Nat
  BY Workers
<1> HIDE DEF Worker, Team, Cpu
<1>1. {Depths, Rows, Columns, kernelwidth} \subseteq Nat \ {0}
  <2>1. PICK s \in Sizes : Depths = s[1] /\ Rows = s[2] /\ Columns = s[3]
    BY DEF Init
  <2>2. s \in (Nat \ {0}) \X (Nat \ {0}) \X (Nat \ {0})
    BY <2>1, Conv3dAssumption
  <2>3. kernelwidth \in Nat \ {0}
    BY Conv3dAssumption DEF Init
  <2> QED
    BY <2>1, <2>2, <2>3
<1>2. /\ DIV \in 0 .. MaxDiv /\ hot \in Address /\ outputArr = [a \in Address |-> Unwritten]
      /\ heap = {} /\ mpc = "start" /\ i = 0 /\ verdict = "none"
      /\ pc = [t \in Worker |-> "none"] /\ at = [t \in Worker |-> 0]
      /\ z_to = [t \in Worker |-> 0]
  BY DEF Init
<1>3. ControlInv
  BY <1>0, <1>1, <1>2 DEF ControlInv
<1>4. heap = Blocks
  BY <1>0, <1>2 DEF Blocks
<1>5. PlanesInv
  BY <1>0, <1>1, <1>2 DEF PlanesInv
<1>6. OutputInv
  BY <1>2 DEF OutputInv
<1>7. VerdictInv
  BY <1>2 DEF VerdictInv
<1> QED
  BY <1>3, <1>4, <1>5, <1>6, <1>7 DEF ConvInv

LEMMA ConvInvHolds == Spec => []ConvInv
<1>1. Init => ConvInv
  BY ConvInvInit
<1>2. ConvInv /\ [Next]_vars => ConvInv'
  <2> SUFFICES ASSUME ConvInv, [Next]_vars PROVE ConvInv'
    OBVIOUS
  <2>1. ControlInv'
    BY ControlInvStep DEF ConvInv
  <2>2. heap' = Blocks'
    BY <2>1, HeapStep DEF ConvInv
  <2>3. PlanesInv'
    BY <2>1, PlanesStep DEF ConvInv
  <2>4. OutputInv'
    BY <2>1, OutputStep DEF ConvInv
  <2>5. VerdictInv'
    BY VerdictStep DEF ConvInv
  <2> QED
    BY <2>1, <2>2, <2>3, <2>4, <2>5 DEF ConvInv
<1> QED
  BY <1>1, <1>2, PTL DEF Spec

(* What a thread uses is on the heap while it runs, and nothing is left at *)
(* the end: main frees the vectors only after it has joined every thread,  *)
(* and a thread frees its argument only after it has read it.              *)
THEOREM HeapSafe == Spec => []HeapHeld
<1>1. ConvInv => HeapHeld
  <2> SUFFICES ASSUME ConvInv PROVE HeapHeld
    OBVIOUS
  <2>0. /\ heap = MainBlocks \cup ArgBlocks \cup TempBlocks /\ ControlInv
        /\ Worker = {Cpu} \cup Team
    BY BlocksSplit, Workers DEF ConvInv
  <2>1. ASSUME NEW t \in Worker, pc[t] \in {"created", "convolve"} PROVE vectors \in MainBlocks
    <3>1. mpc \in {"cpu", "create", "join"}
      BY <2>0, <2>1 DEF ControlInv
    <3>2. mpc = "cpu" => t = Cpu /\ pc[Cpu] = "convolve"
      BY <2>0, <2>1 DEF ControlInv
    <3> QED
      BY <3>1, <3>2 DEF MainBlocks
  <2>2. ASSUME NEW t \in Worker
        PROVE  /\ pc[t] = "created" => {vectors, Arg(t)} \subseteq heap
               /\ pc[t] = "convolve" => {vectors, Temp(t)} \subseteq heap
    BY <2>0, <2>1 DEF ArgBlocks, TempBlocks
  <2>3. mpc \in {"verify", "done"} => heap = {}
    <3>1. SUFFICES ASSUME mpc \in {"verify", "done"} PROVE heap = {}
      OBVIOUS
    <3>2. \A t \in Worker : pc[t] \in {"none", "ended"}
      BY <2>0, <3>1 DEF ControlInv
    <3>3. MainBlocks = {} /\ ArgBlocks = {} /\ TempBlocks = {}
      BY <2>0, <3>1, <3>2 DEF MainBlocks, ArgBlocks, TempBlocks
    <3> QED
      BY <2>0, <3>3
  <2> QED
    BY <2>2, <2>3 DEF HeapHeld
<1> QED
  BY <1>1, ConvInvHolds, PTL

(* When the memory behind the kernel is clean, the output is the           *)
(* convolution: every element written is the sample's, all are written     *)
(* when the threads are joined, although from forgets the planes that the  *)
(* threads before got in addition, and the verification finds no           *)
(* difference.                                                             *)
THEOREM ConvolutionRight == Spec => []Convolves
<1>1. ConvInv => Convolves
  <2> SUFFICES ASSUME ConvInv, tail = "clean" PROVE
        /\ \A a \in Address : outputArr[a] \in {Unwritten, Sample(a)}
        /\ mpc \in {"verify", "done"} /\ DIV >= 1 => \A a \in Address : outputArr[a] = Sample(a)
        /\ verdict = "not equal" => DIV < 1
    BY DEF Convolves
  <2>1. \A a \in Address : Sum(a) = Sample(a)
    BY SumIsSample DEF ConvInv, ControlInv, Sized
  <2>2. \A a \in Address : 0 <= a /\ a < Depths * Plane
    BY Outputs DEF ConvInv
  <2> QED
    BY <2>1, <2>2 DEF ConvInv, OutputInv, Written, VerdictInv
<1> QED
  BY <1>1, ConvInvHolds, PTL
=============================================================================
