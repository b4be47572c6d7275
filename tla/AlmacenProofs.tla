---------------------------- MODULE AlmacenProofs ----------------------------
(***************************************************************************)
(* Proofs about Almacen, for any photos, box, clock and failures.          *)
(***************************************************************************)
EXTENDS Almacen, TLAPS

(* What a request i has in hand.                                           *)
SubidaBien(i) ==
  /\ i.pc # "libre" => /\ i.foto \in Fotos /\ i.nombre \in Nombres
                       /\ i.clave = <<NombreLimpio[i.nombre], i.llego>>
  /\ i.pc \in {"optimizar", "enviar", "colgada"} => ValidateMimeType(i.foto)
  /\ i.medida # Nada =>
       /\ i.foto \in Fotos
       /\ i.medida = CalculateDimensions(i.foto.ancho, i.foto.alto)

(* An object o, stored at a key c or on its way there, is the photo of the *)
(* request that was given that key, under the type of the form it took.    *)
ObjetoBien(c, o, subidas) ==
  /\ subidas[o.de].pc # "libre"
  /\ subidas[o.de].clave = c /\ subidas[o.de].foto = o.foto
  /\ ValidateMimeType(o.foto)
  /\ o.contentType = TipoEnviado(o.foto, o.forma)

(* A request i that was answered left something at its key.                *)
Guardada(i, objetos, r2, quitadas) ==
  i.pc = "respondida" /\ i.clave \notin quitadas => r2 /\ objetos[i.clave] # Nada

Inv ==
  /\ TypeOK
  /\ \A s \in Subidas : SubidaBien(subida[s])
  /\ \A c \in Claves : bucket[c] # Nada => ObjetoBien(c, bucket[c], subida)
  /\ \A p \in tardios : ObjetoBien(p[1], p[2], subida)
  /\ \A s \in Subidas : Guardada(subida[s], bucket, configurado, borradas)

-----------------------------------------------------------------------------
(* The size of the shrunk photo.                                           *)

LEMMA Monotonia ==
  ASSUME NEW c \in Nat \ {0}, NEW x \in Int, NEW y \in Int, x < y
  PROVE  c * x + c <= c * y
<1>1. y - x - 1 \in Nat
  OBVIOUS
<1>2. c * (y - x - 1) >= 0
  BY <1>1
<1>3. c * (y - x - 1) = c * y - c * x - c
  OBVIOUS
<1> QED
  BY <1>2, <1>3

(* Rounding moves a quotient by half a unit at most.                       *)
LEMMA RedondeoCerca ==
  ASSUME NEW a \in Nat, NEW b \in Nat, NEW c \in Nat \ {0}
  PROVE  /\ Redondeo(a, b, c) \in Nat
         /\ 2 * (c * Redondeo(a, b, c)) <= 2 * (a * b) + c
         /\ 2 * (a * b) < 2 * (c * Redondeo(a, b, c)) + c
<1> DEFINE n == 2 * a * b + c
           d == 2 * c
           q == n \div d
<1>1. a * b \in Nat /\ n = 2 * (a * b) + c /\ n \in Nat /\ d \in Nat /\ d > 0
  OBVIOUS
<1> HIDE DEF n, d
<1>2. q \in Int /\ d * q <= n /\ n < d * q + d /\ q >= 0
  BY <1>1
<1>3. d * q = 2 * (c * q)
  BY <1>2 DEF d
<1>4. Redondeo(a, b, c) = q
  BY DEF Redondeo, n, d
<1> HIDE DEF q
<1>5. c * q \in Int /\ a * b \in Int
  BY <1>2
<1>6. d = 2 * c
  BY DEF d
<1> QED
  BY <1>1, <1>2, <1>3, <1>4, <1>5, <1>6

(* A quotient that is not above a whole number is not rounded above it.    *)
LEMMA RedondeoHasta ==
  ASSUME NEW a \in Nat, NEW b \in Nat, NEW c \in Nat \ {0}, NEW k \in Nat, a * b <= c * k
  PROVE  Redondeo(a, b, c) <= k
<1> DEFINE q == Redondeo(a, b, c)
<1>1. q \in Nat /\ 2 * (c * q) <= 2 * (a * b) + c
  BY RedondeoCerca
<1> HIDE DEF q
<1>2. ASSUME k < q PROVE FALSE
  <2>1. c * k + c <= c * q
    BY <1>1, <1>2, Monotonia
  <2>2. c * k \in Int /\ c * q \in Int /\ a * b \in Int
    BY <1>1
  <2> QED
    BY <1>1, <2>1, <2>2
<1> QED
  BY <1>1, <1>2 DEF q

(* One that is rounded above a whole number is above it.                   *)
LEMMA RedondeoDesde ==
  ASSUME NEW a \in Nat, NEW b \in Nat, NEW c \in Nat \ {0}, NEW k \in Nat, Redondeo(a, b, c) > k
  PROVE  c * k < a * b
<1>1. ~(a * b <= c * k)
  <2>1. Redondeo(a, b, c) \in Nat
    BY RedondeoCerca
  <2> QED
    BY <2>1, RedondeoHasta
<1>2. c * k \in Int /\ a * b \in Int
  OBVIOUS
<1> QED
  BY <1>1, <1>2

LEMMA CajaTipo == MaxWidth \in Nat \ {0} /\ MaxHeight \in Nat \ {0}
  BY AlmacenAssumption

(* A photo brought to a height k below its own h: the width fits in what   *)
(* it had, and the proportion moves by half a pixel.                       *)
LEMMA Achicada ==
  ASSUME NEW w \in Nat \ {0}, NEW h \in Nat \ {0}, NEW k \in Nat, k <= h
  PROVE  LET q == Redondeo(k, w, h) IN
         /\ q \in Nat /\ q <= w
         /\ q * h - k * w \in -h..h
<1> DEFINE q == Redondeo(k, w, h)
<1>1. /\ q \in Nat /\ 2 * (h * q) <= 2 * (k * w) + h
      /\ 2 * (k * w) < 2 * (h * q) + h
  BY RedondeoCerca
<1>2. k * w <= h * w
  <2>1. h - k \in Nat
    OBVIOUS
  <2>2. (h - k) * w >= 0
    BY <2>1
  <2>3. (h - k) * w = h * w - k * w
    OBVIOUS
  <2>4. h * w \in Int /\ k * w \in Int
    OBVIOUS
  <2> QED
    BY <2>2, <2>3, <2>4
<1>3. q <= w
  BY <1>2, RedondeoHasta
<1> HIDE DEF q
<1>4. h * q = q * h /\ q * h \in Int /\ k * w \in Int
  BY <1>1
<1>5. q * h - k * w \in -h..h
  BY <1>1, <1>4
<1> QED
  BY <1>1, <1>3, <1>5 DEF q

(* calculateDimensions keeps to the box and to the photo, and the          *)
(* proportion is off by a pixel of the photo's longer side at most.        *)
LEMMA EnCaja ==
  ASSUME NEW w \in Nat, NEW h \in Nat
  PROVE  LET m == CalculateDimensions(w, h) IN
         /\ m \in Medida
         /\ w > 0 /\ h > 0 =>
              /\ m.width <= w /\ m.height <= h
              /\ \A lado \in Nat : lado >= w /\ lado >= h =>
                   m.width * h - m.height * w \in -lado..lado
<1> DEFINE m == CalculateDimensions(w, h)
           alto == IF w > MaxWidth THEN Redondeo(MaxWidth, h, w) ELSE h
           ancho == IF w > MaxWidth THEN MaxWidth ELSE w
<1>0. MaxWidth \in Nat /\ MaxHeight \in Nat
  BY CajaTipo
<1>1. CASE w = 0 \/ h = 0
  <2>1. m = [width |-> MaxWidth, height |-> MaxHeight]
    BY <1>1 DEF CalculateDimensions
  <2>2. m \in Medida
    BY <2>1, <1>0 DEF Medida
  <2> QED
    BY <1>1, <2>2
<1>2. CASE w > 0 /\ h > 0
  <2>1. /\ alto \in Nat /\ ancho \in Nat /\ alto <= h /\ ancho <= w /\ ancho <= MaxWidth
        /\ w <= MaxWidth => ancho = w /\ alto = h
    <3>1. CASE w > MaxWidth
      <4>1. LET q == Redondeo(MaxWidth, h, w) IN q \in Nat /\ q <= h
        BY <1>0, <1>2, <3>1, Achicada
      <4> QED
        BY <1>0, <3>1, <4>1
    <3>2. CASE w <= MaxWidth
      BY <1>0, <3>2
    <3> QED
      BY <1>0, <3>1, <3>2
  <2>2. ancho * h - alto * w \in -w..w
    <3>1. CASE w > MaxWidth
      <4>1. LET q == Redondeo(MaxWidth, h, w) IN q \in Nat /\ q * w - MaxWidth * h \in -w..w
        BY <1>0, <1>2, <3>1, Achicada
      <4>2. alto * w - ancho * h \in -w..w
        BY <3>1, <4>1
      <4>3. alto * w \in Int /\ ancho * h \in Int
        BY <2>1
      <4> HIDE DEF alto, ancho
      <4> QED
        BY <4>2, <4>3
    <3>2. CASE w <= MaxWidth
      <4>1. ancho * h = alto * w /\ ancho * h \in Int
        BY <2>1, <3>2
      <4> HIDE DEF alto, ancho
      <4> QED
        BY <4>1
    <3> QED
      BY <1>0, <3>1, <3>2
  <2>3. CASE alto > MaxHeight
    <3> DEFINE q == Redondeo(MaxHeight, w, h)
    <3>1. m = [width |-> q, height |-> MaxHeight]
      BY <1>2, <2>3 DEF CalculateDimensions
    <3>2. MaxHeight <= h
      BY <1>0, <2>1, <2>3
    <3>3. q \in Nat /\ q <= w /\ q * h - MaxHeight * w \in -h..h
      BY <1>0, <1>2, <3>2, Achicada
    <3>4. q <= MaxWidth
      <4>1. CASE w > MaxWidth
        <5>1. w * MaxHeight < MaxWidth * h
          BY <1>0, <1>2, <2>3, <4>1, RedondeoDesde
        <5>2. MaxHeight * w <= h * MaxWidth
          BY <1>0, <5>1
        <5> QED
          BY <1>0, <1>2, <5>2, RedondeoHasta
      <4>2. CASE w <= MaxWidth
        <5> HIDE DEF q
        <5> QED
          BY <1>0, <3>3, <4>2
      <4> QED
        BY <1>0, <4>1, <4>2
    <3> HIDE DEF q, m, alto, ancho
    <3>5. m.width = q /\ m.height = MaxHeight /\ m \in Medida
      BY <1>0, <3>1, <3>3, <3>4 DEF Medida
    <3>6. ASSUME NEW lado \in Nat, lado >= h PROVE q * h - MaxHeight * w \in -lado..lado
      BY <1>0, <3>3, <3>6
    <3> QED
      BY <3>2, <3>3, <3>5, <3>6 DEF m
  <2>4. CASE ~(alto > MaxHeight)
    <3>1. m = [width |-> ancho, height |-> alto]
      BY <1>2, <2>4 DEF CalculateDimensions
    <3> HIDE DEF m, alto, ancho
    <3>2. m.width = ancho /\ m.height = alto /\ m \in Medida
      BY <1>0, <2>1, <2>4, <3>1 DEF Medida
    <3>3. ASSUME NEW lado \in Nat, lado >= w PROVE ancho * h - alto * w \in -lado..lado
      BY <2>1, <2>2, <3>3
    <3> QED
      BY <2>1, <3>2, <3>3 DEF m
  <2> QED
    BY <2>3, <2>4
<1> QED
  BY <1>1, <1>2

-----------------------------------------------------------------------------
LEMMA LibreTipo == Libre \in Subida /\ SubidaBien(Libre) /\ Libre.pc = "libre"
  BY AlmacenAssumption DEF Libre, Subida, SubidaBien, Pasos, Formas

LEMMA ClaveTipo ==
  ASSUME NEW i \in Subida, SubidaBien(i), i.pc # "libre"
  PROVE  /\ i.foto \in Fotos /\ i.nombre \in Nombres /\ i.llego \in 0..MaxReloj
         /\ i.clave = <<NombreLimpio[i.nombre], i.llego>> /\ i.clave \in Claves
<1>1. /\ i.foto \in Fotos /\ i.nombre \in Nombres /\ i.llego \in 0..MaxReloj
      /\ i.clave = <<NombreLimpio[i.nombre], i.llego>>
  BY DEF Subida, SubidaBien
<1> QED
  BY <1>1 DEF Claves

LEMMA Inicio == Init => Inv
<1> SUFFICES ASSUME Init PROVE Inv
  OBVIOUS
<1>1. TypeOK
  BY LibreTipo, AlmacenAssumption DEF Init, TypeOK
<1>2. \A s \in Subidas : subida[s] = Libre
  BY DEF Init
<1>3. \A s \in Subidas :
        SubidaBien(subida[s]) /\ Guardada(subida[s], bucket, configurado, borradas)
  BY <1>2, LibreTipo DEF Guardada
<1>4. \A c \in Claves : bucket[c] = Nada
  BY DEF Init
<1>5. tardios = {}
  BY DEF Init
<1> QED
  BY <1>1, <1>3, <1>4, <1>5 DEF Inv

(* A request that goes on keeps its photo and its key: what any of them    *)
(* stored, or may still store, stays what it was.                          *)
LEMMA SigueBien ==
  ASSUME Inv, NEW s \in Subidas, NEW j \in Subida, subida' = [subida EXCEPT ![s] = j],
         subida[s].pc # "libre" =>
           j.pc # "libre" /\ j.clave = subida[s].clave /\ j.foto = subida[s].foto
  PROVE  /\ subida' \in [Subidas -> Subida]
         /\ \A c, o : (o \in Objeto /\ ObjetoBien(c, o, subida)) => ObjetoBien(c, o, subida')
<1>1. subida \in [Subidas -> Subida]
  BY DEF Inv, TypeOK
<1>2. ASSUME NEW c, NEW o, o \in Objeto, ObjetoBien(c, o, subida) PROVE ObjetoBien(c, o, subida')
  <2>1. o.de \in Subidas
    BY <1>2 DEF Objeto
  <2>2. CASE o.de = s
    <3>1. subida'[o.de] = j
      BY <1>1, <2>2
    <3> QED
      BY <1>2, <2>2, <3>1 DEF ObjetoBien
  <2>3. CASE o.de # s
    <3>1. subida'[o.de] = subida[o.de]
      BY <1>1, <2>1, <2>3
    <3> QED
      BY <1>2, <3>1 DEF ObjetoBien
  <2> QED
    BY <2>2, <2>3
<1> QED
  BY <1>1, <1>2

(* One request goes on to j; its try may have left something at its key,   *)
(* or on its way there, and nothing is taken from the bucket.              *)
LEMMA SoloSubida ==
  ASSUME Inv, NEW s \in Subidas, NEW j \in Subida, subida' = [subida EXCEPT ![s] = j],
         subida[s].pc # "libre" =>
           j.pc # "libre" /\ j.clave = subida[s].clave /\ j.foto = subida[s].foto,
         SubidaBien(j), Guardada(j, bucket', configurado, borradas),
         UNCHANGED <<configurado, borradas, reloj>>, fallas' \in 0..MaxFallas,
         NEW o, NEW c,
         \/ UNCHANGED <<bucket, tardios>>
         \/ /\ c \in Claves /\ o \in Objeto /\ ObjetoBien(c, o, subida)
            /\ \/ bucket' = [bucket EXCEPT ![c] = o] /\ UNCHANGED tardios
               \/ tardios' = tardios \cup {<<c, o>>} /\ UNCHANGED bucket
  PROVE  Inv'
<1>0. /\ subida \in [Subidas -> Subida] /\ bucket \in [Claves -> Objeto \cup {Nada}]
      /\ tardios \subseteq Claves \X Objeto /\ Nada \notin Objeto
  BY AlmacenAssumption DEF Inv, TypeOK
<1>1. /\ subida' \in [Subidas -> Subida]
      /\ \A k, x : x \in Objeto /\ ObjetoBien(k, x, subida) => ObjetoBien(k, x, subida')
  BY SigueBien
<1>2. /\ bucket' \in [Claves -> Objeto \cup {Nada}]
      /\ \A k \in Claves : bucket'[k] # Nada => ObjetoBien(k, bucket'[k], subida)
      /\ \A k \in Claves : bucket[k] # Nada => bucket'[k] # Nada
  <2>1. CASE UNCHANGED bucket
    BY <1>0, <2>1 DEF Inv
  <2>2. CASE c \in Claves /\ o \in Objeto /\ ObjetoBien(c, o, subida)
             /\ bucket' = [bucket EXCEPT ![c] = o]
    <3>1. bucket' \in [Claves -> Objeto \cup {Nada}]
      BY <1>0, <2>2
    <3>2. \A k \in Claves : bucket'[k] = IF k = c THEN o ELSE bucket[k]
      BY <1>0, <2>2
    <3> QED
      BY <1>0, <2>2, <3>1, <3>2 DEF Inv
  <2> QED
    BY <2>1, <2>2
<1>3. /\ tardios' \subseteq Claves \X Objeto
      /\ \A p \in tardios' : ObjetoBien(p[1], p[2], subida)
  <2>1. \A p \in tardios : ObjetoBien(p[1], p[2], subida)
    BY DEF Inv
  <2>2. CASE UNCHANGED tardios
    BY <1>0, <2>1, <2>2
  <2>3. CASE c \in Claves /\ o \in Objeto /\ ObjetoBien(c, o, subida)
             /\ tardios' = tardios \cup {<<c, o>>}
    BY <1>0, <2>1, <2>3
  <2> QED
    BY <2>2, <2>3
<1>4. TypeOK'
  BY <1>1, <1>2, <1>3 DEF Inv, TypeOK
<1>5. \A t \in Subidas : subida'[t] = IF t = s THEN j ELSE subida[t]
  BY <1>0
<1>6. \A t \in Subidas : SubidaBien(subida[t]) /\ Guardada(subida[t], bucket, configurado, borradas)
  BY DEF Inv
<1>7. \A t \in Subidas : SubidaBien(subida'[t])
  BY <1>5, <1>6
<1>8. ASSUME NEW t \in Subidas PROVE Guardada(subida'[t], bucket', configurado', borradas')
  <2>1. CASE t = s
    BY <1>5, <2>1
  <2>2. CASE t # s
    <3>1. subida[t].pc # "libre" => subida[t].clave \in Claves
      <4>1. subida[t] \in Subida /\ SubidaBien(subida[t])
        BY <1>0, <1>6
      <4> QED
        BY <1>6, <4>1, ClaveTipo
    <3>2. Guardada(subida[t], bucket, configurado, borradas)
      BY <1>6
    <3>3. Guardada(subida[t], bucket', configurado, borradas)
      BY <1>2, <3>1, <3>2 DEF Guardada
    <3> QED
      BY <1>5, <2>2, <3>3
  <2> QED
    BY <2>1, <2>2
<1>9. \A k \in Claves : bucket'[k] # Nada => ObjetoBien(k, bucket'[k], subida')
  BY <1>1, <1>2
<1>10. \A p \in tardios' : ObjetoBien(p[1], p[2], subida')
  BY <1>1, <1>3
<1> QED
  BY <1>4, <1>7, <1>8, <1>9, <1>10 DEF Inv

-----------------------------------------------------------------------------
LEMMA RecibirInv ==
  ASSUME Inv, NEW s \in Subidas, NEW f \in Fotos, NEW n \in Nombres, Recibir(s, f, n)
  PROVE  Inv'
<1> DEFINE p == IF ~ValidateMimeType(f) \/ ~ValidateFileSize(f) THEN "error"
                ELSE IF ShouldOptimize(f) THEN "optimizar" ELSE "enviar"
           k == ClaveArchivo(n, reloj)
           j == [Libre EXCEPT !.foto = f, !.nombre = n, !.llego = reloj, !.clave = k, !.pc = p]
<1>0. subida[s].pc = "libre" /\ reloj \in 0..MaxReloj /\ fallas \in 0..MaxFallas
  BY DEF Recibir, En, Inv, TypeOK
<1>1. subida' = [subida EXCEPT ![s] = j] /\ UNCHANGED <<configurado, bucket, tardios, borradas, reloj, fallas>>
  BY DEF Recibir
<1>2. k = <<NombreLimpio[n], reloj>> /\ k \in Claves
  BY <1>0 DEF ClaveArchivo, Claves
<1>3. p \in {"error", "optimizar", "enviar"} /\ (p # "error" => ValidateMimeType(f))
  OBVIOUS
<1> HIDE DEF p, k
<1>4. /\ j.foto = f /\ j.nombre = n /\ j.llego = reloj /\ j.clave = k /\ j.pc = p
      /\ j.medida = Nada /\ j \in Subida
  BY <1>0, <1>2, <1>3, LibreTipo DEF Libre, Subida, Pasos
<1> HIDE DEF j
<1>5. SubidaBien(j) /\ Guardada(j, bucket', configurado, borradas)
  BY <1>2, <1>3, <1>4 DEF SubidaBien, Guardada
<1> QED
  BY <1>0, <1>1, <1>4, <1>5, SoloSubida

LEMMA OptimizarInv ==
  ASSUME Inv, NEW s \in Subidas, Optimizar(s)
  PROVE  Inv'
<1> DEFINE i == subida[s]
           m == CalculateDimensions(i.foto.ancho, i.foto.alto)
           g == IF SharpPuede(i.foto, m) THEN "optimizada" ELSE "original"
           d == IF SharpPuede(i.foto, m) THEN m ELSE Nada
           j == [i EXCEPT !.pc = "enviar", !.forma = g, !.medida = d]
<1>0. /\ subida \in [Subidas -> Subida] /\ i \in Subida /\ SubidaBien(i) /\ i.pc = "optimizar"
      /\ fallas \in 0..MaxFallas
  BY DEF Optimizar, En, Inv, TypeOK
<1>1. subida' = [subida EXCEPT ![s] = j] /\ UNCHANGED <<configurado, bucket, tardios, borradas, reloj, fallas>>
  BY <1>0 DEF Optimizar
<1>2. i.foto \in Fotos /\ ValidateMimeType(i.foto)
  BY <1>0, ClaveTipo DEF SubidaBien
<1>3. m \in Medida
  <2>1. i.foto.ancho \in Nat /\ i.foto.alto \in Nat
    BY <1>2, AlmacenAssumption DEF Foto
  <2> QED
    BY <2>1, EnCaja
<1>4. g \in Formas /\ d \in Medida \cup {Nada} /\ (d # Nada => d = m)
  BY <1>3 DEF Formas
<1> HIDE DEF g, d
<1>5. /\ j.foto = i.foto /\ j.nombre = i.nombre /\ j.llego = i.llego /\ j.clave = i.clave
      /\ j.pc = "enviar" /\ j.medida = d /\ j \in Subida
  BY <1>0, <1>4 DEF Subida, Pasos
<1> HIDE DEF j
<1>6. SubidaBien(j) /\ Guardada(j, bucket', configurado, borradas)
  BY <1>0, <1>2, <1>4, <1>5 DEF SubidaBien, Guardada
<1> QED
  BY <1>0, <1>1, <1>5, <1>6, SoloSubida

(* What a try sends, and where.                                            *)
LEMMA PutBien ==
  ASSUME Inv, NEW s \in Subidas, En(s, "enviar")
  PROVE  /\ subida[s] \in Subida /\ SubidaBien(subida[s]) /\ subida[s].pc = "enviar"
         /\ subida[s].clave \in Claves
         /\ Put(s) \in Objeto /\ ObjetoBien(subida[s].clave, Put(s), subida)
<1> DEFINE i == subida[s]
           tipo == TipoEnviado(i.foto, i.forma)
<1>1. i \in Subida /\ SubidaBien(i) /\ i.pc = "enviar"
  BY DEF En, Inv, TypeOK
<1>2. i.foto \in Fotos /\ i.clave \in Claves /\ i.forma \in Formas /\ ValidateMimeType(i.foto)
  <2>1. i.forma \in Formas /\ ValidateMimeType(i.foto)
    BY <1>1 DEF SubidaBien, Subida
  <2> QED
    BY <1>1, <2>1, ClaveTipo
<1>3. tipo \in AllowedMimeTypes
  BY <1>2 DEF TipoEnviado, NormalizeContentType, ValidateMimeType, AllowedMimeTypes
<1>4. Put(s) = [de |-> s, foto |-> i.foto, forma |-> i.forma, contentType |-> tipo]
  BY DEF Put
<1> HIDE DEF tipo
<1>5. Put(s) \in Objeto
  BY <1>2, <1>3, <1>4 DEF Objeto
<1>6. /\ Put(s).de = s /\ Put(s).foto = i.foto /\ Put(s).forma = i.forma
      /\ Put(s).contentType = tipo
  BY <1>4
<1>7. ObjetoBien(i.clave, Put(s), subida)
  BY <1>1, <1>2, <1>6 DEF ObjetoBien, tipo
<1> QED
  BY <1>1, <1>2, <1>5, <1>7

(* When a send is given up, the original follows or the request fails.     *)
LEMMA CaerBien ==
  ASSUME NEW i \in Subida, SubidaBien(i), i.pc = "enviar"
  PROVE  /\ Caer(i) \in Subida /\ SubidaBien(Caer(i))
         /\ Caer(i).pc \in {"enviar", "error"}
         /\ Caer(i).clave = i.clave /\ Caer(i).foto = i.foto
<1>0. 1 \in 1..MaxIntentos
  BY AlmacenAssumption
<1>1. CASE i.forma = "optimizada"
  <2> DEFINE j == [i EXCEPT !.forma = "original", !.intento = 1]
  <2>1. Caer(i) = j
    BY <1>1 DEF Caer
  <2>2. /\ j \in Subida /\ j.pc = i.pc /\ j.foto = i.foto /\ j.nombre = i.nombre
        /\ j.llego = i.llego /\ j.clave = i.clave /\ j.medida = i.medida
    BY <1>0 DEF Subida, Formas
  <2> HIDE DEF j
  <2>3. SubidaBien(j)
    BY <2>2 DEF SubidaBien
  <2> QED
    BY <2>1, <2>2, <2>3
<1>2. CASE i.forma # "optimizada"
  <2> DEFINE j == [i EXCEPT !.pc = "error"]
  <2>1. Caer(i) = j
    BY <1>2 DEF Caer
  <2>2. /\ j \in Subida /\ j.pc = "error" /\ j.foto = i.foto /\ j.nombre = i.nombre
        /\ j.llego = i.llego /\ j.clave = i.clave /\ j.medida = i.medida
    BY DEF Subida, Pasos
  <2> HIDE DEF j
  <2>3. SubidaBien(j)
    BY <2>2 DEF SubidaBien
  <2> QED
    BY <2>1, <2>2, <2>3
<1> QED
  BY <1>1, <1>2

(* A try that was lost or hung is made again, or given up.                 *)
LEMMA ReintentarBien ==
  ASSUME NEW i \in Subida, SubidaBien(i), i.pc \in {"enviar", "colgada"}
  PROVE  /\ Reintentar(i) \in Subida /\ SubidaBien(Reintentar(i))
         /\ Reintentar(i).pc \in {"enviar", "error"}
         /\ Reintentar(i).clave = i.clave /\ Reintentar(i).foto = i.foto
<1>1. CASE i.intento < MaxIntentos
  <2> DEFINE h == [i EXCEPT !.pc = "enviar", !.intento = @ + 1]
  <2>1. i.intento + 1 \in 1..MaxIntentos
    BY <1>1, AlmacenAssumption DEF Subida
  <2>2. /\ h \in Subida /\ h.pc = "enviar" /\ h.foto = i.foto /\ h.nombre = i.nombre
        /\ h.llego = i.llego /\ h.clave = i.clave /\ h.medida = i.medida
    BY <2>1 DEF Subida, Pasos
  <2>3. Reintentar(i) = h
    BY <1>1 DEF Reintentar
  <2> HIDE DEF h
  <2>4. SubidaBien(h)
    BY <2>2 DEF SubidaBien
  <2> QED
    BY <2>2, <2>3, <2>4
<1>2. CASE ~(i.intento < MaxIntentos)
  <2> DEFINE h == [i EXCEPT !.pc = "enviar"]
  <2>1. /\ h \in Subida /\ h.pc = "enviar" /\ h.foto = i.foto /\ h.nombre = i.nombre
        /\ h.llego = i.llego /\ h.clave = i.clave /\ h.medida = i.medida
    BY DEF Subida, Pasos
  <2>2. Reintentar(i) = Caer(h)
    BY <1>2 DEF Reintentar
  <2> HIDE DEF h
  <2>3. SubidaBien(h)
    BY <2>1 DEF SubidaBien
  <2> QED
    BY <2>1, <2>2, <2>3, CaerBien
<1> QED
  BY <1>1, <1>2

LEMMA SinClienteInv ==
  ASSUME Inv, NEW s \in Subidas, SinCliente(s)
  PROVE  Inv'
<1> DEFINE j == Caer(subida[s])
<1>1. /\ En(s, "enviar") /\ subida' = [subida EXCEPT ![s] = j] /\ fallas \in 0..MaxFallas
      /\ UNCHANGED <<configurado, bucket, tardios, borradas, reloj, fallas>>
  BY DEF SinCliente, Inv, TypeOK
<1>2. /\ subida[s] \in Subida /\ SubidaBien(subida[s]) /\ subida[s].pc = "enviar"
  BY <1>1, PutBien
<1>3. /\ j \in Subida /\ SubidaBien(j) /\ j.pc \in {"enviar", "error"}
      /\ j.clave = subida[s].clave /\ j.foto = subida[s].foto
  BY <1>2, CaerBien
<1> HIDE DEF j
<1>4. Guardada(j, bucket', configurado, borradas)
  BY <1>3 DEF Guardada
<1> QED
  BY <1>1, <1>3, <1>4, SoloSubida

LEMMA EnvioRechazadoInv ==
  ASSUME Inv, NEW s \in Subidas, EnvioRechazado(s)
  PROVE  Inv'
<1> DEFINE j == Caer(subida[s])
<1>1. /\ En(s, "enviar") /\ subida' = [subida EXCEPT ![s] = j]
      /\ UNCHANGED <<configurado, bucket, tardios, borradas, reloj>>
  BY DEF EnvioRechazado
<1>2. fallas' \in 0..MaxFallas
  BY AlmacenAssumption DEF EnvioRechazado, Inv, TypeOK
<1>3. /\ subida[s] \in Subida /\ SubidaBien(subida[s]) /\ subida[s].pc = "enviar"
  BY <1>1, PutBien
<1>4. /\ j \in Subida /\ SubidaBien(j) /\ j.pc \in {"enviar", "error"}
      /\ j.clave = subida[s].clave /\ j.foto = subida[s].foto
  BY <1>3, CaerBien
<1> HIDE DEF j
<1>5. Guardada(j, bucket', configurado, borradas)
  BY <1>4 DEF Guardada
<1> QED
  BY <1>1, <1>2, <1>4, <1>5, SoloSubida

LEMMA EnviarInv ==
  ASSUME Inv, NEW s \in Subidas, Enviar(s)
  PROVE  Inv'
<1> DEFINE i == subida[s]
           j == [i EXCEPT !.pc = "respondida"]
<1>1. /\ En(s, "enviar") /\ configurado /\ bucket' = [bucket EXCEPT ![i.clave] = Put(s)]
      /\ UNCHANGED <<configurado, tardios, borradas, reloj, fallas>>
      /\ fallas \in 0..MaxFallas /\ subida \in [Subidas -> Subida]
      /\ bucket \in [Claves -> Objeto \cup {Nada}]
  BY DEF Enviar, Inv, TypeOK
<1>2. /\ i \in Subida /\ SubidaBien(i) /\ i.pc = "enviar" /\ i.clave \in Claves
      /\ Put(s) \in Objeto /\ ObjetoBien(i.clave, Put(s), subida)
  BY <1>1, PutBien
<1>3. subida' = [subida EXCEPT ![s] = j]
  BY DEF Enviar
<1>4. /\ j \in Subida /\ j.pc = "respondida" /\ j.foto = i.foto /\ j.nombre = i.nombre
      /\ j.llego = i.llego /\ j.clave = i.clave /\ j.medida = i.medida
  BY <1>2 DEF Subida, Pasos
<1> HIDE DEF j
<1>5. SubidaBien(j)
  BY <1>2, <1>4 DEF SubidaBien
<1>6. Guardada(j, bucket', configurado, borradas)
  <2>1. bucket'[i.clave] # Nada
    BY <1>1, <1>2, AlmacenAssumption
  <2> QED
    BY <1>1, <1>4, <2>1 DEF Guardada
<1> QED
  BY <1>1, <1>2, <1>3, <1>4, <1>5, <1>6, SoloSubida

LEMMA EnvioPerdidoInv ==
  ASSUME Inv, NEW s \in Subidas, EnvioPerdido(s)
  PROVE  Inv'
<1> DEFINE i == subida[s]
           h == [i EXCEPT !.pc = "colgada"]
<1>1. /\ En(s, "enviar") /\ UNCHANGED <<configurado, borradas, reloj>>
      /\ \/ subida' = [subida EXCEPT ![s] = Reintentar(i)]
         \/ subida' = [subida EXCEPT ![s] = h]
  BY DEF EnvioPerdido
<1>2. fallas' \in 0..MaxFallas
  BY AlmacenAssumption DEF EnvioPerdido, Inv, TypeOK
<1>3. /\ i \in Subida /\ SubidaBien(i) /\ i.pc = "enviar" /\ i.clave \in Claves
      /\ Put(s) \in Objeto /\ ObjetoBien(i.clave, Put(s), subida)
  BY <1>1, PutBien
<1>4. /\ Reintentar(i) \in Subida /\ SubidaBien(Reintentar(i))
      /\ Reintentar(i).pc \in {"enviar", "error"}
      /\ Reintentar(i).clave = i.clave /\ Reintentar(i).foto = i.foto
  BY <1>3, ReintentarBien
<1>5. /\ h \in Subida /\ h.pc = "colgada" /\ h.foto = i.foto /\ h.nombre = i.nombre
      /\ h.llego = i.llego /\ h.clave = i.clave /\ h.medida = i.medida
  BY <1>3 DEF Subida, Pasos
<1> HIDE DEF h
<1>6. SubidaBien(h)
  BY <1>3, <1>5 DEF SubidaBien
<1>7. PICK j \in {Reintentar(i), h} : subida' = [subida EXCEPT ![s] = j]
  BY <1>1
<1>8. /\ j \in Subida /\ SubidaBien(j) /\ j.pc \in {"enviar", "error", "colgada"}
      /\ j.clave = i.clave /\ j.foto = i.foto
  BY <1>4, <1>5, <1>6, <1>7
<1>9. \/ UNCHANGED <<bucket, tardios>>
      \/ bucket' = [bucket EXCEPT ![i.clave] = Put(s)] /\ UNCHANGED tardios
      \/ tardios' = tardios \cup {<<i.clave, Put(s)>>} /\ UNCHANGED bucket
  BY DEF EnvioPerdido
<1>10. Guardada(j, bucket', configurado, borradas)
  BY <1>8 DEF Guardada
<1> QED
  BY <1>1, <1>2, <1>3, <1>7, <1>8, <1>9, <1>10, SoloSubida

LEMMA CortarInv ==
  ASSUME Inv, NEW s \in Subidas, Cortar(s)
  PROVE  Inv'
<1> DEFINE j == Reintentar(subida[s])
<1>1. /\ subida[s].pc = "colgada" /\ subida' = [subida EXCEPT ![s] = j]
      /\ UNCHANGED <<configurado, bucket, tardios, borradas, reloj, fallas>>
      /\ fallas \in 0..MaxFallas
  BY DEF Cortar, En, Inv, TypeOK
<1>2. subida[s] \in Subida /\ SubidaBien(subida[s])
  BY DEF Inv, TypeOK
<1>3. /\ j \in Subida /\ SubidaBien(j) /\ j.pc \in {"enviar", "error"}
      /\ j.clave = subida[s].clave /\ j.foto = subida[s].foto
  BY <1>1, <1>2, ReintentarBien
<1> HIDE DEF j
<1>4. Guardada(j, bucket', configurado, borradas)
  BY <1>3 DEF Guardada
<1> QED
  BY <1>1, <1>3, <1>4, SoloSubida

(* A PUT nobody answered is applied, over what the key has.                *)
LEMMA AplicarTardeInv ==
  ASSUME Inv, AplicarTarde
  PROVE  Inv'
<1>1. PICK p \in tardios :
        /\ bucket' = [bucket EXCEPT ![p[1]] = p[2]]
        /\ tardios' = tardios \ {p}
        /\ UNCHANGED <<configurado, subida, borradas, reloj, fallas>>
  BY DEF AplicarTarde
<1>2. /\ bucket \in [Claves -> Objeto \cup {Nada}] /\ tardios \subseteq Claves \X Objeto
      /\ Nada \notin Objeto
  BY AlmacenAssumption DEF Inv, TypeOK
<1>3. p[1] \in Claves /\ p[2] \in Objeto /\ ObjetoBien(p[1], p[2], subida)
  <2>1. p \in Claves \X Objeto
    BY <1>1, <1>2
  <2> QED
    BY <2>1 DEF Inv
<1> DEFINE c == p[1]
           o == p[2]
<1>4. bucket' = [bucket EXCEPT ![c] = o]
  BY <1>1
<1> HIDE DEF c, o
<1>5. c \in Claves /\ o \in Objeto /\ ObjetoBien(c, o, subida)
  BY <1>3 DEF c, o
<1>6. /\ bucket' \in [Claves -> Objeto \cup {Nada}]
      /\ \A k \in Claves : bucket'[k] = IF k = c THEN o ELSE bucket[k]
  BY <1>2, <1>4, <1>5
<1>7. TypeOK'
  BY <1>1, <1>6 DEF Inv, TypeOK
<1>8. \A k \in Claves : bucket'[k] # Nada => ObjetoBien(k, bucket'[k], subida)
  BY <1>5, <1>6 DEF Inv
<1>9. ASSUME NEW s \in Subidas PROVE Guardada(subida[s], bucket', configurado, borradas)
  <2>1. subida[s] \in Subida /\ SubidaBien(subida[s]) /\ Guardada(subida[s], bucket, configurado, borradas)
    BY DEF Inv, TypeOK
  <2>2. subida[s].pc # "libre" => subida[s].clave \in Claves
    BY <2>1, ClaveTipo
  <2> QED
    BY <1>2, <1>5, <1>6, <2>1, <2>2 DEF Guardada
<1> QED
  BY <1>1, <1>7, <1>8, <1>9 DEF Inv

LEMMA EliminarArchivoInv ==
  ASSUME Inv, NEW s \in Subidas, EliminarArchivo(s)
  PROVE  Inv'
<1> DEFINE c == subida[s].clave
<1>1. /\ subida[s] \in Subida /\ SubidaBien(subida[s]) /\ subida[s].pc = "respondida"
      /\ bucket \in [Claves -> Objeto \cup {Nada}]
      /\ borradas' = borradas \cup {c}
      /\ bucket' = [bucket EXCEPT ![c] = Nada] \/ UNCHANGED bucket
      /\ UNCHANGED <<configurado, tardios, subida, reloj>>
  BY DEF EliminarArchivo, En, Inv, TypeOK
<1>2. c \in Claves
  BY <1>1, ClaveTipo
<1>3. fallas' \in 0..MaxFallas
  BY AlmacenAssumption DEF EliminarArchivo, Inv, TypeOK
<1> HIDE DEF c
<1>4. /\ bucket' \in [Claves -> Objeto \cup {Nada}]
      /\ \A k \in Claves : k # c => bucket'[k] = bucket[k]
      /\ bucket'[c] # Nada => bucket'[c] = bucket[c]
  <2>1. CASE bucket' = [bucket EXCEPT ![c] = Nada]
    BY <1>1, <1>2, <2>1
  <2>2. CASE UNCHANGED bucket
    BY <1>1, <2>2
  <2> QED
    BY <1>1, <2>1, <2>2
<1>5. TypeOK'
  BY <1>1, <1>2, <1>3, <1>4 DEF Inv, TypeOK
<1>6. \A k \in Claves : bucket'[k] # Nada => ObjetoBien(k, bucket'[k], subida)
  BY <1>2, <1>4 DEF Inv
<1>7. ASSUME NEW t \in Subidas PROVE Guardada(subida[t], bucket', configurado, borradas')
  <2>1. subida[t] \in Subida /\ SubidaBien(subida[t]) /\ Guardada(subida[t], bucket, configurado, borradas)
    BY DEF Inv, TypeOK
  <2>2. subida[t].pc # "libre" => subida[t].clave \in Claves
    BY <2>1, ClaveTipo
  <2> QED
    BY <1>1, <1>4, <2>1, <2>2 DEF Guardada
<1> QED
  BY <1>1, <1>5, <1>6, <1>7 DEF Inv

LEMMA TicInv ==
  ASSUME Inv, Tic
  PROVE  Inv'
<1>1. UNCHANGED <<configurado, bucket, tardios, subida, borradas, fallas>> /\ reloj' \in 0..MaxReloj
  BY AlmacenAssumption DEF Tic, Inv, TypeOK
<1>2. TypeOK'
  BY <1>1 DEF Inv, TypeOK
<1> QED
  BY <1>1, <1>2 DEF Inv

LEMMA Induccion == Inv /\ [Next]_vars => Inv'
<1> SUFFICES ASSUME Inv, [Next]_vars PROVE Inv'
  OBVIOUS
<1>1. ASSUME NEW s \in Subidas, Avanzar(s) PROVE Inv'
  BY <1>1, OptimizarInv, SinClienteInv, EnviarInv DEF Avanzar
<1>2. CASE UNCHANGED vars
  <2>1. TypeOK'
    BY <1>2 DEF vars, Inv, TypeOK
  <2> QED
    BY <1>2, <2>1 DEF vars, Inv
<1> QED
  BY <1>1, <1>2, RecibirInv, EnvioPerdidoInv, CortarInv, EnvioRechazadoInv, EliminarArchivoInv,
     AplicarTardeInv, TicInv DEF Next

LEMMA SpecInv == Spec => []Inv
  BY Inicio, Induccion, PTL DEF Spec

-----------------------------------------------------------------------------
(* The variables keep their types: the size sharp is asked for is in the   *)
(* box, a key is a name and a time, what is stored has an admitted type    *)
(* (calculateDimensions, generateKey, validateMimeType).                   *)
THEOREM AlmacenTipo == Spec => []TypeOK
<1>1. Inv => TypeOK
  BY DEF Inv
<1> QED
  BY <1>1, SpecInv, PTL

(* A photo that was answered with can be fetched at its key, and is listed *)
(* there, whatever was lost, sent again, hung or applied late, until it is *)
(* deleted; and it is the request's own or that of one that was given the  *)
(* same key: same name once cleaned, same millisecond (uploadFotoPerfil,   *)
(* subirArchivo).                                                          *)
THEOREM FotoQueda == Spec => []SubidaQueda
<1>1. Inv => SubidaQueda
  <2> SUFFICES ASSUME Inv, NEW s \in Subidas, En(s, "respondida"),
                      subida[s].clave \notin borradas
               PROVE  /\ \E o \in Subidas :
                           MismaClave(s, o) /\ ObtenerArchivo(subida[s].clave) = subida[o].foto
                      /\ subida[s].clave \in ListarArchivos(NombreLimpio[subida[s].nombre])
    BY DEF SubidaQueda
  <2> DEFINE c == subida[s].clave
             d == bucket[c].de
  <2>1. subida \in [Subidas -> Subida] /\ SubidaBien(subida[s]) /\ subida[s].pc = "respondida"
    BY DEF Inv, TypeOK, En
  <2>2. c = <<NombreLimpio[subida[s].nombre], subida[s].llego>> /\ c \in Claves
    BY <2>1, ClaveTipo
  <2>3. configurado /\ bucket[c] # Nada
    BY <2>1 DEF Inv, Guardada
  <2>4. bucket[c] \in Objeto /\ ObjetoBien(c, bucket[c], subida)
    BY <2>2, <2>3 DEF Inv, TypeOK
  <2>5. d \in Subidas /\ subida[d].pc # "libre" /\ subida[d].clave = c /\ subida[d].foto = bucket[c].foto
    BY <2>4 DEF Objeto, ObjetoBien
  <2>6. MismaClave(s, d)
    <3>1. c = <<NombreLimpio[subida[d].nombre], subida[d].llego>>
      <4>1. subida[d] \in Subida /\ SubidaBien(subida[d])
        BY <2>1, <2>5 DEF Inv
      <4> QED
        BY <2>5, <4>1, ClaveTipo
    <3>2. /\ NombreLimpio[subida[d].nombre] = NombreLimpio[subida[s].nombre]
          /\ subida[d].llego = subida[s].llego
      BY <2>2, <3>1
    <3> QED
      BY <2>5, <3>2 DEF MismaClave
  <2>7. ArchivoExiste(c) /\ c[1] = NombreLimpio[subida[s].nombre]
    BY <2>2, <2>3 DEF ArchivoExiste
  <2>8. ObtenerArchivo(c) = subida[d].foto
    BY <2>5, <2>7 DEF ObtenerArchivo
  <2> QED
    BY <2>2, <2>5, <2>6, <2>7, <2>8 DEF ListarArchivos
<1> QED
  BY <1>1, SpecInv, PTL

(* The size a photo is shrunk to is inside the box and never larger than   *)
(* the photo, and its proportion is off by a pixel of the photo's longer   *)
(* side at most, for every photo and every box (calculateDimensions).      *)
THEOREM Proporcion == Spec => []DimensionesEnCaja
<1>1. Inv => DimensionesEnCaja
  <2> SUFFICES ASSUME Inv, NEW s \in Subidas, subida[s].medida # Nada,
                      subida[s].foto.ancho > 0, subida[s].foto.alto > 0
               PROVE  LET f == subida[s].foto
                          m == subida[s].medida
                          dif == m.width * f.alto - m.height * f.ancho
                      IN /\ m.width <= MaxWidth /\ m.height <= MaxHeight
                         /\ m.width <= f.ancho /\ m.height <= f.alto
                         /\ \A lado \in {f.ancho, f.alto} :
                              lado >= f.ancho /\ lado >= f.alto => -lado <= dif /\ dif <= lado
    BY DEF DimensionesEnCaja
  <2> DEFINE f == subida[s].foto
             m == subida[s].medida
             w == f.ancho
             h == f.alto
             dif == m.width * h - m.height * w
  <2>1. f \in Fotos /\ m = CalculateDimensions(w, h)
    BY DEF Inv, SubidaBien
  <2>2. w \in Nat /\ h \in Nat /\ w > 0 /\ h > 0
    BY <2>1, AlmacenAssumption DEF Foto
  <2> HIDE DEF m, w, h
  <2>3. /\ m \in Medida /\ m.width <= w /\ m.height <= h
        /\ \A lado \in Nat : lado >= w /\ lado >= h => dif \in -lado..lado
    BY <2>1, <2>2, EnCaja
  <2>4. m.width <= MaxWidth /\ m.height <= MaxHeight /\ m.width \in Nat /\ m.height \in Nat
    BY <2>3, CajaTipo DEF Medida
  <2>5. dif \in Int
    BY <2>2, <2>4
  <2> HIDE DEF dif
  <2>6. \A lado \in {w, h} : lado >= w /\ lado >= h => -lado <= dif /\ dif <= lado
    BY <2>2, <2>3, <2>5
  <2> QED
    BY <2>3, <2>4, <2>6 DEF m, w, h, dif
<1> QED
  BY <1>1, SpecInv, PTL

=============================================================================
