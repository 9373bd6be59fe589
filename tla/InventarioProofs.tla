-------------------------- MODULE InventarioProofs --------------------------
(* FallaSoloPorOtra for any number of requests, devices, administrators,     *)
(* alerts and events.  The invariant says what a request that nobody crossed *)
(* still knows: the answers to its queries hold, and the tables it has       *)
(* already deleted from have no row left that its WHERE matches.  The order  *)
(* of the DELETEs then leaves nothing that refers to the next one's rows.    *)
EXTENDS Aprovisionamiento, TLAPS

Pasos == EnConsulta \cup {"libre", "fallida", "carpeta", "repite", "archivos",
                          "limpia"}
ConOrden == EnConsulta \cup {"fallida"}

Cierta(f, o, i) ==
  (Referida(o.fila, Preguntas(o)[i].tabla) \in f) = Preguntas(o)[i].hay

SinRestos(f, o, i) ==
  \A y \in f : ~(y.tabla = Bajas[o.fila.tabla][i] /\ Coincide(y, o.fila))

\* What holds of a request at a with n - 1 done, order o and interference e,
\* while the tables hold f.
Bien(a, n, o) ==
  /\ a \in ConOrden => o \in Ordenes
  /\ a \in {"insertar", "actualizar", "eliminar"} => a = o.oper
  /\ a = "pregunta" => n \in 1 .. Len(Preguntas(o))
  /\ a = "eliminar" => n \in 1 .. Len(Bajas[o.fila.tabla])

Sabe(f, a, n, o) ==
  /\ a = "pregunta" => \A i \in 1 .. n - 1 : Cierta(f, o, i)
  /\ a = "insertar" => \A i \in 1 .. Len(Preguntas(o)) : Cierta(f, o, i)
  /\ a = "eliminar" => \A i \in 1 .. n - 1 : SinRestos(f, o, i)
  /\ a = "fallida" => SinPreguntar(o)

Vale(f, a, n, o, e) == Bien(a, n, o) /\ (e \/ Sabe(f, a, n, o))

Tipos == /\ \A x \in filas : x \in Filas /\ EsFila(x)
         /\ paso \in [Peticiones -> Pasos]
         /\ turno \in [Peticiones -> Nat]
         /\ DOMAIN orden = Peticiones /\ orden = [p \in Peticiones |-> orden[p]]
         /\ estorbo \in [Peticiones -> BOOLEAN]

PeticionesValen ==
  \A p \in Peticiones : Vale(filas, paso[p], turno[p], orden[p], estorbo[p])

IInv == Tipos /\ PeticionesValen

-----------------------------------------------------------------------------
(* The tables.                                                               *)

LEMMA LlaveDelPadre ==
  ASSUME NEW s \in Tablas, NEW t \in Referencia[s]
  PROVE  t \in Tablas /\ Llave[t] \subseteq Llave[s]
  BY DEF Tablas, Referencia, Llave

LEMMA BajasSonTablas ==
  ASSUME NEW u \in Tablas
  PROVE  /\ Len(Bajas[u]) \in Nat \ {0}
         /\ \A i \in 1 .. Len(Bajas[u]) : Bajas[u][i] \in Tablas
<1>1. CASE u = "dispositivo"   BY <1>1 DEF Tablas, Bajas
<1>2. CASE u = "administrador" BY <1>2 DEF Tablas, Bajas
<1>3. CASE u = "permisos"      BY <1>3 DEF Tablas, Bajas
<1>4. CASE u = "restricciones" BY <1>4 DEF Tablas, Bajas
<1>5. CASE u = "bitacora"      BY <1>5 DEF Tablas, Bajas
<1> QED BY <1>1, <1>2, <1>3, <1>4, <1>5 DEF Tablas

\* A table is deleted from after every table that refers to it.
LEMMA HijosAntes ==
  ASSUME NEW u \in Tablas, NEW k \in 1 .. Len(Bajas[u]), NEW s \in Tablas,
         Bajas[u][k] \in Referencia[s]
  PROVE  \E i \in 1 .. k - 1 : Bajas[u][i] = s
<1>1. CASE u = "dispositivo"
  <2>1. Bajas[u] = <<"bitacora", "restricciones", "permisos", "dispositivo">>
    BY <1>1 DEF Bajas
  <2>2. k \in {1, 2, 3, 4} BY <2>1
  <2>3. CASE k = 1 BY <2>1, <2>3 DEF Tablas, Referencia
  <2>4. CASE k = 2
    <3>1. s = "bitacora" BY <2>1, <2>4 DEF Tablas, Referencia
    <3> QED BY <2>1, <2>4, <3>1
  <2>5. CASE k = 3 BY <2>1, <2>5 DEF Tablas, Referencia
  <2>6. CASE k = 4
    <3>1. s \in {"permisos", "restricciones"} BY <2>1, <2>6 DEF Tablas, Referencia
    <3>2. 2 \in 1 .. k - 1 /\ 3 \in 1 .. k - 1 BY <2>6
    <3> QED BY <2>1, <3>1, <3>2
  <2> QED BY <2>2, <2>3, <2>4, <2>5, <2>6
<1>2. CASE u = "administrador"
  <2>1. Bajas[u] = <<"permisos", "administrador">> BY <1>2 DEF Bajas
  <2>2. k \in {1, 2} BY <2>1
  <2>3. k = 2 /\ s = "permisos" BY <2>1, <2>2 DEF Tablas, Referencia
  <2> QED BY <2>1, <2>3
<1>3. CASE u = "permisos" BY <1>3 DEF Bajas, Tablas, Referencia
<1>4. CASE u = "restricciones"
  <2>1. Bajas[u] = <<"bitacora", "restricciones">> BY <1>4 DEF Bajas
  <2>2. k \in {1, 2} BY <2>1
  <2>3. k = 2 /\ s = "bitacora" BY <2>1, <2>2 DEF Tablas, Referencia
  <2> QED BY <2>1, <2>3
<1>5. CASE u = "bitacora" BY <1>5 DEF Bajas, Tablas, Referencia
<1> QED BY <1>1, <1>2, <1>3, <1>4, <1>5 DEF Tablas

LEMMA FilaPropia ==
  ASSUME NEW x \in Filas, EsFila(x)
  PROVE  Referida(x, x.tabla) = x
<1>1. DOMAIN x.llave = Llave[x.tabla] BY DEF EsFila
<1>2. x.llave = [c \in Llave[x.tabla] |-> x.llave[c]] BY <1>1 DEF Filas
<1>3. x = [tabla |-> x.tabla, llave |-> x.llave] BY DEF Filas
<1> QED BY <1>2, <1>3 DEF Referida

LEMMA FilaDeLaOrden ==
  ASSUME NEW o \in Ordenes
  PROVE  /\ o.fila \in Filas /\ EsFila(o.fila) /\ o.fila.tabla \in Tablas
         /\ o.oper \in {"insertar", "actualizar", "eliminar"}
  BY DEF Ordenes, EsFila

LEMMA PreguntasBienHechas ==
  ASSUME NEW o \in Ordenes
  PROVE  Len(Preguntas(o)) \in {1, 2}
  BY FilaDeLaOrden DEF Preguntas

-----------------------------------------------------------------------------
(* What the database refuses.                                                *)

\* A request that knows the answers to its queries inserts what is admitted.
LEMMA LoPreguntadoSeAdmite ==
  ASSUME NEW f, NEW o \in Ordenes, o.oper = "insertar", ~SinPreguntar(o),
         \A i \in 1 .. Len(Preguntas(o)) : Cierta(f, o, i)
  PROVE  o.fila \notin f /\ Padres(o.fila) \subseteq f
<1> DEFINE x == o.fila
<1>1. x \in Filas /\ EsFila(x) /\ x.tabla \in Tablas BY FilaDeLaOrden
<1>2. Referida(x, x.tabla) = x BY <1>1, FilaPropia
<1>3. x.tabla \in {"dispositivo", "administrador", "restricciones"}
  BY <1>1 DEF SinPreguntar, Tablas
<1>4. CASE x.tabla \in {"dispositivo", "administrador"}
  <2>1. Preguntas(o) = <<[tabla |-> x.tabla, hay |-> FALSE]>>
    BY <1>4 DEF Preguntas
  <2>2. 1 \in 1 .. Len(Preguntas(o)) BY <2>1
  <2>3. Preguntas(o)[1].tabla = x.tabla /\ Preguntas(o)[1].hay = FALSE BY <2>1
  <2>5. (Referida(x, x.tabla) \in f) = FALSE BY <2>2, <2>3 DEF Cierta
  <2>4. Padres(x) = {} BY <1>4 DEF Padres, Referencia
  <2> QED BY <1>2, <2>4, <2>5
<1>5. CASE x.tabla = "restricciones"
  <2>1. Preguntas(o) = <<[tabla |-> "restricciones", hay |-> FALSE],
                         [tabla |-> "dispositivo", hay |-> TRUE]>>
    BY <1>5 DEF Preguntas
  <2>2. 1 \in 1 .. Len(Preguntas(o)) /\ 2 \in 1 .. Len(Preguntas(o)) BY <2>1
  <2>3. /\ Preguntas(o)[1].tabla = x.tabla /\ Preguntas(o)[1].hay = FALSE
        /\ Preguntas(o)[2].tabla = "dispositivo" /\ Preguntas(o)[2].hay = TRUE
    BY <1>5, <2>1
  <2>4. (Referida(x, x.tabla) \in f) = FALSE BY <2>2, <2>3 DEF Cierta
  <2>5. (Referida(x, "dispositivo") \in f) = TRUE BY <2>2, <2>3 DEF Cierta
  <2>6. Padres(x) = {Referida(x, "dispositivo")}
    BY <1>5 DEF Padres, Referencia
  <2> QED BY <1>2, <2>4, <2>5, <2>6
<1> QED BY <1>3, <1>4, <1>5

\* A request that has emptied the tables before lets go of the next rows.
LEMMA SinHijosNoFalla ==
  ASSUME Tipos, NEW o \in Ordenes, NEW k \in 1 .. Len(Bajas[o.fila.tabla]),
         \A i \in 1 .. k - 1 : SinRestos(filas, o, i)
  PROVE  Suelta(Alcance(o.fila, Bajas[o.fila.tabla][k]))
<1> DEFINE x == o.fila
           bajas == Alcance(x, Bajas[x.tabla][k])
<1>1. x.tabla \in Tablas BY FilaDeLaOrden
<1>2. SUFFICES ASSUME NEW y \in filas, NEW t \in Referencia[y.tabla],
                      Referida(y, t) \in bajas
               PROVE  FALSE
  <2>1. ASSUME NEW y \in filas \ bajas, NEW z \in Padres(y) \cap bajas
        PROVE  FALSE
    BY <1>2, <2>1 DEF Padres
  <2> QED BY <2>1 DEF Suelta
<1>3. /\ y.tabla \in Tablas /\ DOMAIN y.llave = Llave[y.tabla]
  BY DEF Tipos, EsFila
<1>4. Llave[t] \subseteq Llave[y.tabla] BY <1>3, LlaveDelPadre
<1>5. t = Bajas[x.tabla][k] /\ Coincide(Referida(y, t), x)
  BY <1>2 DEF Alcance, Referida
<1>6. Coincide(y, x)
  <2>1. SUFFICES ASSUME NEW c \in DOMAIN x.llave
                 PROVE  c \in DOMAIN y.llave /\ y.llave[c] = x.llave[c]
    BY DEF Coincide
  <2>2. c \in Llave[t] /\ y.llave[c] = x.llave[c]
    BY <1>5 DEF Coincide, Referida
  <2> QED BY <1>3, <1>4, <2>2
<1>7. PICK i \in 1 .. k - 1 : Bajas[x.tabla][i] = y.tabla
  BY <1>1, <1>3, <1>5, HijosAntes
<1> QED BY <1>6, <1>7 DEF SinRestos

-----------------------------------------------------------------------------
(* The steps.                                                                *)

LEMMA FueraDeLaBase ==
  ASSUME NEW a, a \notin ConOrden, NEW f, NEW n, NEW o, NEW e
  PROVE  Vale(f, a, n, o, e)
  BY DEF ConOrden, EnConsulta, Vale, Bien, Sabe

\* A request stays right while another one changes the tables: it has been
\* crossed, or nothing has changed.
LEMMA Cruzada ==
  ASSUME NEW f, NEW g, NEW a, NEW n, NEW o, NEW e \in BOOLEAN, NEW d \in BOOLEAN,
         Vale(f, a, n, o, e),
         a \in ConOrden => d = (e \/ (a \in EnConsulta /\ g # f))
  PROVE  Vale(g, a, n, o, d)
<1>1. CASE a \notin ConOrden BY <1>1, FueraDeLaBase
<1>2. CASE a \in EnConsulta /\ g # f
  BY <1>2 DEF ConOrden, Vale
<1>3. CASE a = "fallida"
  BY <1>3 DEF ConOrden, EnConsulta, Vale, Sabe, Bien
<1>4. CASE a \in EnConsulta /\ g = f
  BY <1>4 DEF ConOrden, Vale
<1> QED BY <1>1, <1>2, <1>3, <1>4 DEF ConOrden

\* Request p goes to a with n: all others stay right, and the types hold.
LEMMA Avanza ==
  ASSUME IInv, NEW p \in Peticiones, NEW a \in Pasos, NEW n \in Nat, Va(p, a, n),
         \A x \in filas' : x \in Filas /\ EsFila(x),
         a \in ConOrden => Vale(filas', a, n, orden[p], estorbo[p])
  PROVE  IInv'
<1> USE DEF IInv
<1>1. /\ paso' = [paso EXCEPT ![p] = a] /\ turno' = [turno EXCEPT ![p] = n]
      /\ orden' = [orden EXCEPT ![p] = IF a = "libre" THEN Ninguna ELSE @]
      /\ estorbo' = [q \in Peticiones |->
           /\ paso'[q] \in EnConsulta \cup {"fallida"}
           /\ estorbo[q] \/ (q # p /\ paso[q] \in EnConsulta /\ filas' # filas)]
  BY DEF Va
<1>2. paso' \in [Peticiones -> Pasos] /\ turno' \in [Peticiones -> Nat]
  BY <1>1 DEF Tipos
<1>3. estorbo' \in [Peticiones -> BOOLEAN] BY <1>1
<1>4. DOMAIN orden' = Peticiones /\ orden' = [q \in Peticiones |-> orden'[q]]
  BY <1>1 DEF Tipos
<1>5. Tipos' BY <1>2, <1>3, <1>4 DEF Tipos
<1>6. ASSUME NEW q \in Peticiones
      PROVE  Vale(filas', paso'[q], turno'[q], orden'[q], estorbo'[q])
  <2>1. CASE q = p
    <3>1. paso'[q] = a /\ turno'[q] = n BY <1>1, <2>1 DEF Tipos
    <3>2. CASE a \notin ConOrden BY <3>1, <3>2, FueraDeLaBase
    <3>3. CASE a \in ConOrden
      <4>1. orden'[q] = orden[p] BY <1>1, <2>1, <3>3 DEF Tipos, ConOrden, EnConsulta
      <4>2. estorbo'[q] = estorbo[p]
        BY <1>1, <2>1, <3>1, <3>3 DEF Tipos, ConOrden
      <4> QED BY <3>1, <3>3, <4>1, <4>2
    <3> QED BY <3>2, <3>3
  <2>2. CASE q # p
    <3>1. paso'[q] = paso[q] /\ turno'[q] = turno[q] /\ orden'[q] = orden[q]
      BY <1>1, <2>2 DEF Tipos
    <3>2. Vale(filas, paso[q], turno[q], orden[q], estorbo[q])
      BY DEF PeticionesValen
    <3>3. estorbo[q] \in BOOLEAN /\ estorbo'[q] \in BOOLEAN
      BY <1>3 DEF Tipos
    <3>4. paso[q] \in ConOrden =>
            estorbo'[q] = (estorbo[q] \/ (paso[q] \in EnConsulta /\ filas' # filas))
      BY <1>1, <2>2, <3>1, <3>3 DEF ConOrden
    <3>5. Vale(filas', paso[q], turno[q], orden[q], estorbo'[q])
      BY <3>2, <3>3, <3>4, Cruzada
    <3> QED BY <3>1, <3>5
  <2> QED BY <2>1, <2>2
<1>7. PeticionesValen' BY <1>6 DEF PeticionesValen
<1> QED BY <1>5, <1>7

LEMMA LlegaVale ==
  ASSUME IInv, NEW p \in Peticiones, Llega(p)
  PROVE  IInv'
<1> USE DEF IInv
<1>1. PICK o \in Ordenes : orden' = [orden EXCEPT ![p] = o] BY DEF Llega
<1>2. /\ paso' = [paso EXCEPT ![p] = "pregunta"] /\ turno' = [turno EXCEPT ![p] = 1]
      /\ estorbo' = [estorbo EXCEPT ![p] = FALSE] /\ filas' = filas
  BY DEF Llega, tablasVars
<1>3. Tipos' BY <1>1, <1>2 DEF Tipos, Pasos, EnConsulta
<1>4. ASSUME NEW q \in Peticiones
      PROVE  Vale(filas', paso'[q], turno'[q], orden'[q], estorbo'[q])
  <2>1. CASE q = p
    <3>1. /\ paso'[q] = "pregunta" /\ turno'[q] = 1 /\ orden'[q] = o
          /\ estorbo'[q] = FALSE
      BY <1>1, <1>2, <2>1 DEF Tipos
    <3>2. 1 \in 1 .. Len(Preguntas(o)) BY PreguntasBienHechas
    <3>3. Bien("pregunta", 1, o) BY <3>2 DEF Bien
    <3>4. Sabe(filas', "pregunta", 1, o) BY DEF Sabe
    <3> QED BY <3>1, <3>3, <3>4 DEF Vale
  <2>2. CASE q # p BY <1>1, <1>2, <2>2 DEF Tipos, PeticionesValen
  <2> QED BY <2>1, <2>2
<1> QED BY <1>3, <1>4 DEF PeticionesValen

LEMMA PreguntaVale ==
  ASSUME IInv, NEW p \in Peticiones, Pregunta(p)
  PROVE  IInv'
<1> DEFINE o == orden[p]
           n == turno[p]
           sigue == (Referida(o.fila, Preguntas(o)[n].tabla) \in filas)
                    = Preguntas(o)[n].hay
<1>1. /\ paso[p] = "pregunta" /\ filas' = filas
      /\ \/ Va(p, "libre", 1)
         \/ sigue /\ n = Len(Preguntas(o)) /\ Va(p, o.oper, 1)
         \/ sigue /\ n # Len(Preguntas(o)) /\ Va(p, "pregunta", n + 1)
  BY DEF Pregunta, tablasVars
<1>2. Vale(filas, "pregunta", n, o, estorbo[p])
  BY <1>1 DEF IInv, PeticionesValen
<1>3. o \in Ordenes /\ n \in 1 .. Len(Preguntas(o))
  BY <1>2 DEF Vale, Bien, ConOrden, EnConsulta
<1>4. Len(Preguntas(o)) \in {1, 2} BY <1>3, PreguntasBienHechas
<1>5. \A x \in filas' : x \in Filas /\ EsFila(x) BY <1>1 DEF IInv, Tipos
<1>6. \A i \in 1 .. n - 1 : estorbo[p] \/ Cierta(filas, o, i)
  BY <1>2 DEF Vale, Sabe
<1>7. ASSUME sigue PROVE \A i \in 1 .. n : estorbo[p] \/ Cierta(filas, o, i)
  <2>1. Cierta(filas, o, n) BY <1>7 DEF Cierta
  <2>2. \A i \in 1 .. n : i = n \/ i \in 1 .. n - 1 BY <1>3, <1>4
  <2> QED BY <1>6, <2>1, <2>2
<1>8. CASE Va(p, "libre", 1)
  BY <1>5, <1>8, Avanza DEF Pasos, ConOrden, EnConsulta
<1>9. CASE sigue /\ n = Len(Preguntas(o)) /\ Va(p, o.oper, 1)
  <2>1. o.oper \in {"insertar", "actualizar", "eliminar"}
        /\ o.fila.tabla \in Tablas
    BY <1>3, FilaDeLaOrden
  <2>2. 1 \in 1 .. Len(Bajas[o.fila.tabla]) BY <2>1, BajasSonTablas
  <2>3. Bien(o.oper, 1, o) BY <1>3, <2>1, <2>2 DEF Bien
  <2>4. estorbo[p] \/ Sabe(filas, o.oper, 1, o)
    BY <1>7, <1>9, <2>1 DEF Sabe
  <2>5. Vale(filas', o.oper, 1, o, estorbo[p]) BY <1>1, <2>3, <2>4 DEF Vale
  <2>6. o.oper \in Pasos BY <2>1 DEF Pasos, EnConsulta
  <2> QED BY <1>5, <1>9, <2>5, <2>6, Avanza
<1>10. CASE sigue /\ n # Len(Preguntas(o)) /\ Va(p, "pregunta", n + 1)
  <2> DEFINE len == Len(Preguntas(o))
  <2>1. n = 1 /\ n + 1 \in 1 .. Len(Preguntas(o))
    <3>1. n # len /\ len \in {1, 2} /\ n \in 1 .. len BY <1>3, <1>4, <1>10
    <3> HIDE DEF n, len
    <3>2. n = 1 /\ n + 1 \in 1 .. len BY <3>1
    <3> QED BY <3>2 DEF n, len
  <2>2. Bien("pregunta", n + 1, o) BY <1>3, <2>1 DEF Bien
  <2>3. estorbo[p] \/ Sabe(filas, "pregunta", n + 1, o)
    BY <1>7, <1>10, <2>1 DEF Sabe
  <2>4. Vale(filas', "pregunta", n + 1, o, estorbo[p])
    BY <1>1, <2>2, <2>3 DEF Vale
  <2> QED BY <1>5, <1>10, <2>1, <2>4, Avanza DEF Pasos, EnConsulta
<1> QED BY <1>1, <1>8, <1>9, <1>10

\* A refused statement: the tables stay as they are.
LEMMA FallaVale ==
  ASSUME IInv, NEW p \in Peticiones, paso[p] \in EnConsulta, Falla(p),
         estorbo[p] \/ SinPreguntar(orden[p])
  PROVE  IInv'
<1>1. Va(p, "fallida", 1) /\ filas' = filas BY DEF Falla, tablasVars
<1>2. \A x \in filas' : x \in Filas /\ EsFila(x) BY <1>1 DEF IInv, Tipos
<1>3. orden[p] \in Ordenes
  BY DEF IInv, PeticionesValen, Vale, Bien, ConOrden
<1>4. Vale(filas', "fallida", 1, orden[p], estorbo[p])
  BY <1>3 DEF Vale, Bien, Sabe
<1> QED BY <1>1, <1>2, <1>4, Avanza DEF Pasos

LEMMA InsertaVale ==
  ASSUME IInv, NEW p \in Peticiones, Inserta(p)
  PROVE  IInv'
<1> DEFINE o == orden[p]
<1>1. paso[p] = "insertar" BY DEF Inserta
<1>2. Vale(filas, "insertar", turno[p], o, estorbo[p])
  BY <1>1 DEF IInv, PeticionesValen
<1>3. o \in Ordenes /\ o.oper = "insertar"
  BY <1>2 DEF Vale, Bien, ConOrden, EnConsulta
<1>4. CASE Admite(o.fila)
  <2>1. filas' = filas \cup {o.fila} BY <1>4 DEF Inserta
  <2>2. \A x \in filas' : x \in Filas /\ EsFila(x)
    BY <1>3, <2>1, FilaDeLaOrden DEF IInv, Tipos
  <2>3. Va(p, "carpeta", 1) \/ Va(p, "libre", 1) BY <1>4 DEF Inserta
  <2> QED BY <2>2, <2>3, Avanza DEF Pasos, ConOrden, EnConsulta
<1>5. CASE ~Admite(o.fila)
  <2>1. Falla(p) BY <1>5 DEF Inserta
  <2>2. ASSUME ~estorbo[p], ~SinPreguntar(o) PROVE FALSE
    <3>1. \A i \in 1 .. Len(Preguntas(o)) : Cierta(filas, o, i)
      BY <1>2, <2>2 DEF Vale, Sabe
    <3> QED BY <1>3, <1>5, <2>2, <3>1, LoPreguntadoSeAdmite DEF Admite
  <2> QED BY <1>1, <2>1, <2>2, FallaVale DEF EnConsulta
<1> QED BY <1>4, <1>5

LEMMA EliminaVale ==
  ASSUME IInv, NEW p \in Peticiones, Elimina(p)
  PROVE  IInv'
<1> DEFINE o == orden[p]
           k == turno[p]
           u == o.fila.tabla
           bajas == Alcance(o.fila, Bajas[u][k])
<1>1. paso[p] = "eliminar" BY DEF Elimina
<1>2. Vale(filas, "eliminar", k, o, estorbo[p])
  BY <1>1 DEF IInv, PeticionesValen
<1>3. o \in Ordenes /\ o.oper = "eliminar" /\ k \in 1 .. Len(Bajas[u])
  BY <1>2 DEF Vale, Bien, ConOrden, EnConsulta
<1>4. u \in Tablas /\ Len(Bajas[u]) \in Nat
  BY <1>3, FilaDeLaOrden, BajasSonTablas
<1>5. estorbo[p] \/ \A i \in 1 .. k - 1 : SinRestos(filas, o, i)
  BY <1>2 DEF Vale, Sabe
<1>6. CASE Suelta(bajas)
  <2>1. filas' = filas \ bajas BY <1>6 DEF Elimina
  <2>2. \A x \in filas' : x \in Filas /\ EsFila(x)
    BY <2>1 DEF IInv, Tipos
  <2>3. \/ Va(p, "limpia", 1) \/ Va(p, "libre", 1)
        \/ k # Len(Bajas[u]) /\ Va(p, "eliminar", k + 1)
    BY <1>6 DEF Elimina
  <2>4. CASE Va(p, "limpia", 1) \/ Va(p, "libre", 1)
    BY <2>2, <2>4, Avanza DEF Pasos, ConOrden, EnConsulta
  <2>5. CASE k # Len(Bajas[u]) /\ Va(p, "eliminar", k + 1)
    <3>1. k + 1 \in 1 .. Len(Bajas[u]) BY <1>3, <1>4, <2>5
    <3>2. Bien("eliminar", k + 1, o) BY <1>3, <3>1 DEF Bien
    <3>3. ASSUME NEW i \in 1 .. k, ~estorbo[p] PROVE SinRestos(filas', o, i)
      <4>1. CASE i = k
        <5>1. \A y \in filas : y.tabla = Bajas[u][k] /\ Coincide(y, o.fila)
                                => y \in bajas
          BY DEF Alcance
        <5> QED BY <2>1, <4>1, <5>1 DEF SinRestos
      <4>2. CASE i # k
        <5>1. i \in 1 .. k - 1 BY <1>3, <1>4, <4>2
        <5>2. SinRestos(filas, o, i) BY <1>5, <3>3, <5>1
        <5> QED BY <2>1, <5>2 DEF SinRestos
      <4> QED BY <4>1, <4>2
    <3>4. (k + 1) - 1 = k BY <1>3, <1>4
    <3>5. estorbo[p] \/ Sabe(filas', "eliminar", k + 1, o)
      BY <3>3, <3>4 DEF Sabe
    <3>6. Vale(filas', "eliminar", k + 1, o, estorbo[p])
      BY <3>2, <3>5 DEF Vale
    <3>7. k + 1 \in Nat /\ "eliminar" \in Pasos
      BY <1>3, <1>4 DEF Pasos, EnConsulta
    <3> QED BY <2>2, <2>5, <3>6, <3>7, Avanza
  <2> QED BY <2>3, <2>4, <2>5
<1>7. CASE ~Suelta(bajas)
  <2>1. Falla(p) BY <1>7 DEF Elimina
  <2>2. estorbo[p] BY <1>3, <1>5, <1>7, SinHijosNoFalla DEF IInv
  <2> QED BY <1>1, <2>1, <2>2, FallaVale DEF EnConsulta
<1> QED BY <1>6, <1>7

\* What goes on outside the database leaves the tables alone.
LEMMA FueraVale ==
  ASSUME IInv, NEW p \in Peticiones, NEW a \in Pasos \ ConOrden, Va(p, a, 1),
         filas' = filas
  PROVE  IInv'
<1>1. \A x \in filas' : x \in Filas /\ EsFila(x) BY DEF IInv, Tipos
<1> QED BY <1>1, Avanza

LEMMA QuietaVale ==
  ASSUME IInv, UNCHANGED <<filas, paso, turno, orden, estorbo>>
  PROVE  IInv'
BY DEF IInv, Tipos, PeticionesValen

LEMMA PeticionVale ==
  ASSUME IInv, NEW p \in Peticiones, Peticion(p)
  PROVE  IInv'
<1> USE DEF tablasVars, peticionVars, discoVars
<1>1. {"libre", "carpeta", "repite", "archivos"} \subseteq Pasos \ ConOrden
  BY DEF Pasos, ConOrden, EnConsulta
<1>2. CASE Llega(p) BY <1>2, LlegaVale
<1>3. CASE Pregunta(p) BY <1>3, PreguntaVale
<1>4. CASE Inserta(p) BY <1>4, InsertaVale
<1>5. CASE Actualiza(p) BY <1>1, <1>5, FueraVale DEF Actualiza
<1>6. CASE Elimina(p) BY <1>6, EliminaVale
<1>7. CASE Mkdir(p)
  <2>1. filas' = filas /\ (Va(p, "archivos", 1) \/ Va(p, "repite", 1))
    BY <1>7 DEF Mkdir
  <2> QED BY <1>1, <2>1, FueraVale
<1>8. CASE Limpia(p)
  <2>1. filas' = filas /\ (Va(p, "carpeta", 1) \/ Va(p, "libre", 1))
    BY <1>8 DEF Limpia
  <2> QED BY <1>1, <2>1, FueraVale
<1>9. CASE TerminaAlta(p) BY <1>1, <1>9, FueraVale DEF TerminaAlta
<1>10. CASE \E c \in Campos : CreaArchivo(p, c)
  BY <1>10, QuietaVale DEF CreaArchivo
<1>11. CASE Interrumpe(p) BY <1>1, <1>11, FueraVale DEF Interrumpe
<1> QED BY <1>2, <1>3, <1>4, <1>5, <1>6, <1>7, <1>8, <1>9, <1>10, <1>11
        DEF Peticion, Pide

LEMMA InitVale == Init => IInv
<1> SUFFICES ASSUME Init PROVE IInv OBVIOUS
<1>1. Tipos BY DEF Init, InventarioInit, Tipos, Pasos
<1>2. ASSUME NEW p \in Peticiones
      PROVE  Vale(filas, paso[p], turno[p], orden[p], estorbo[p])
  <2>1. paso[p] = "libre" BY DEF Init, InventarioInit
  <2>2. "libre" \notin ConOrden BY DEF ConOrden, EnConsulta
  <2> QED BY <2>1, <2>2, FueraDeLaBase
<1> QED BY <1>1, <1>2 DEF IInv, PeticionesValen

LEMMA PasoVale == IInv /\ [Next]_vars => IInv'
<1> SUFFICES ASSUME IInv, [Next]_vars PROVE IInv' OBVIOUS
<1> USE DEF tablasVars, peticionVars, discoVars
<1>1. CASE \E p \in Peticiones : Peticion(p) BY <1>1, PeticionVale
<1>2. CASE Consulta BY <1>2, QuietaVale DEF Consulta
<1>3. CASE \E d \in Dispositivos : Mide(d) BY <1>3, QuietaVale DEF Mide
<1>4. CASE UNCHANGED vars BY <1>4, QuietaVale DEF vars
<1> QED BY <1>1, <1>2, <1>3, <1>4 DEF Next

\* The database refuses a statement only to a request that another request
\* crossed, or to a blind insertion, however many requests, devices,
\* administrators, alerts and events there are (Dispositivo.php:69-96,
\* AdministracionServiciosRed.sql:134-248).
THEOREM LaBaseFallaSoloPorOtra == Spec => []FallaSoloPorOtra
<1>1. IInv => FallaSoloPorOtra
  <2> SUFFICES ASSUME IInv, NEW p \in Peticiones, paso[p] = "fallida"
               PROVE  estorbo[p] \/ SinPreguntar(orden[p])
    BY DEF FallaSoloPorOtra
  <2> QED BY DEF IInv, PeticionesValen, Vale, Sabe
<1> QED BY <1>1, InitVale, PasoVale, PTL DEF Spec

-----------------------------------------------------------------------------
(* RegistradoConArchivos.  A registration stays in progress, or has left its *)
(* mark, from the INSERT to the last archive; nothing takes an archive away. *)

Altas == {"carpeta", "repite", "archivos"}

Registrado(f, d) == \E x \in f : x.tabla = "dispositivo" /\ x.llave["ip"] = d

Atendido(d) == \/ archivos[d] = Campos
               \/ d \in interrumpidas
               \/ \E p \in Peticiones : EnAlta(p, d)

DInv ==
  /\ archivos \in [Dispositivos -> SUBSET Campos]
  /\ \A d \in activas : Registrado(filas, d)
  /\ \A d \in Dispositivos :
        Atendido(d) \/ (d \notin lista /\ ~Registrado(filas, d))
  /\ \A p \in Peticiones : paso[p] \in Altas => ip(p) \in Dispositivos

LEMMA SoloCambiaP ==
  ASSUME IInv, NEW p \in Peticiones, NEW a, NEW n, Va(p, a, n)
  PROVE  /\ paso'[p] = a
         /\ a # "libre" => orden'[p] = orden[p]
         /\ \A q \in Peticiones : q # p => paso'[q] = paso[q] /\ orden'[q] = orden[q]
  BY DEF Va, IInv, Tipos

\* A step of p that keeps p's registration in progress, or completes its
\* archives, or leaves the mark of its interruption.
LEMMA SigueAtendido ==
  ASSUME IInv, NEW p \in Peticiones, NEW a, NEW n, Va(p, a, n),
         NEW d \in Dispositivos, Atendido(d),
         archivos[d] = Campos => archivos'[d] = Campos,
         interrumpidas \subseteq interrumpidas',
         EnAlta(p, d) => a \in Altas \/ archivos'[d] = Campos \/ d \in interrumpidas'
  PROVE  Atendido(d)'
<1>1. CASE archivos[d] = Campos \/ d \in interrumpidas BY <1>1 DEF Atendido
<1>2. CASE \E q \in Peticiones : EnAlta(q, d)
  <2>1. PICK q \in Peticiones : EnAlta(q, d) BY <1>2
  <2>2. CASE q # p
    <3>1. EnAlta(q, d)' BY <2>1, <2>2, SoloCambiaP DEF EnAlta, ip
    <3> QED BY <3>1 DEF Atendido
  <2>3. CASE q = p /\ a \in Altas
    <3>1. EnAlta(q, d)' BY <2>1, <2>3, SoloCambiaP DEF EnAlta, ip, Altas
    <3> QED BY <3>1 DEF Atendido
  <2>4. CASE q = p /\ a \notin Altas BY <2>1, <2>4 DEF Atendido
  <2> QED BY <2>2, <2>3, <2>4
<1> QED BY <1>1, <1>2 DEF Atendido

\* A step of p that leaves the tables, the monitor and the archives alone.
LEMMA PasoEnDisco ==
  ASSUME IInv, DInv, NEW p \in Peticiones, NEW a, NEW n, Va(p, a, n),
         UNCHANGED <<filas, archivos, lista>>,
         \A d \in activas' : Registrado(filas, d),
         interrumpidas \subseteq interrumpidas',
         a \in Altas => paso[p] \in Altas,
         \A d \in Dispositivos : EnAlta(p, d) =>
            a \in Altas \/ archivos[d] = Campos \/ d \in interrumpidas'
  PROVE  DInv'
<1>1. ASSUME NEW d \in Dispositivos
      PROVE  Atendido(d)' \/ (d \notin lista' /\ ~Registrado(filas', d))
  BY SigueAtendido DEF DInv
<1>2. ASSUME NEW q \in Peticiones, paso'[q] \in Altas
      PROVE  ip(q)' \in Dispositivos
  BY <1>2, SoloCambiaP DEF DInv, ip, Altas
<1> QED BY <1>1, <1>2 DEF DInv

LEMMA LlegaAtiende ==
  ASSUME IInv, DInv, NEW p \in Peticiones, Llega(p),
         UNCHANGED <<archivos, interrumpidas, lista>>
  PROVE  DInv'
<1>1. /\ paso[p] \notin Altas /\ paso'[p] \notin Altas
      /\ \A q \in Peticiones : q # p => paso'[q] = paso[q] /\ orden'[q] = orden[q]
      /\ filas' = filas /\ activas' = activas
  BY DEF Llega, tablasVars, IInv, Tipos, Altas
<1>2. ASSUME NEW d \in Dispositivos, Atendido(d) PROVE Atendido(d)'
  <2>1. ASSUME NEW q \in Peticiones, EnAlta(q, d) PROVE EnAlta(q, d)'
    BY <1>1, <2>1 DEF EnAlta, ip, Altas
  <2> QED BY <1>2, <2>1 DEF Atendido
<1>3. ASSUME NEW q \in Peticiones, paso'[q] \in Altas PROVE ip(q)' \in Dispositivos
  BY <1>1, <1>3 DEF DInv, ip
<1> QED BY <1>1, <1>2, <1>3 DEF DInv

LEMMA InsertaAtiende ==
  ASSUME IInv, DInv, NEW p \in Peticiones, Inserta(p),
         UNCHANGED <<archivos, interrumpidas, lista>>
  PROVE  DInv'
<1> DEFINE o == orden[p]
           x == o.fila
<1>1. paso[p] = "insertar" /\ ~(paso[p] \in Altas) BY DEF Inserta, Altas
<1>2. o \in Ordenes BY <1>1 DEF IInv, PeticionesValen, Vale, Bien, ConOrden, EnConsulta
<1>3. x \in Filas /\ EsFila(x) /\ (o.activa => x.tabla = "dispositivo")
  BY <1>2 DEF Ordenes
<1>4. \A d : ~EnAlta(p, d) BY <1>1 DEF EnAlta, Altas
<1>5. CASE ~Admite(x)
  <2>1. Va(p, "fallida", 1) /\ filas' = filas /\ activas' = activas
    BY <1>5 DEF Inserta, Falla, tablasVars
  <2>2. "fallida" \notin Altas BY DEF Altas
  <2> QED BY <1>4, <2>1, <2>2, PasoEnDisco DEF DInv
<1>6. CASE Admite(x) /\ x.tabla # "dispositivo"
  <2>1. Va(p, "libre", 1) /\ filas' = filas \cup {x} /\ activas' = activas
    BY <1>3, <1>6 DEF Inserta
  <2>2. \A d : Registrado(filas', d) <=> Registrado(filas, d)
    BY <1>6, <2>1 DEF Registrado
  <2>3. ASSUME NEW d \in Dispositivos, Atendido(d) PROVE Atendido(d)'
    BY <1>4, <2>1, <2>3, SigueAtendido
  <2>4. ASSUME NEW q \in Peticiones, paso'[q] \in Altas
        PROVE  ip(q)' \in Dispositivos
    BY <2>1, <2>4, SoloCambiaP DEF DInv, ip, Altas
  <2> QED BY <2>1, <2>2, <2>3, <2>4 DEF DInv
<1>7. CASE Admite(x) /\ x.tabla = "dispositivo"
  <2>1. /\ Va(p, "carpeta", 1) /\ filas' = filas \cup {x}
        /\ activas' \subseteq activas \cup {x.llave["ip"]}
    BY <1>7 DEF Inserta
  <2>2. x.llave["ip"] \in Dispositivos
    BY <1>3, <1>7 DEF EsFila, Llave, Columnas
  <2>3. \A d : Registrado(filas', d) <=> Registrado(filas, d) \/ d = x.llave["ip"]
    BY <1>7, <2>1 DEF Registrado
  <2>4. paso'[p] = "carpeta" /\ orden'[p] = o BY <2>1, SoloCambiaP
  <2>5. ASSUME NEW d, d = x.llave["ip"] PROVE EnAlta(p, d)'
    BY <2>4, <2>5 DEF EnAlta, ip
  <2>6. ASSUME NEW d \in Dispositivos, Atendido(d) PROVE Atendido(d)'
    BY <1>4, <2>1, <2>6, SigueAtendido
  <2>7. ASSUME NEW d \in Dispositivos
        PROVE  Atendido(d)' \/ (d \notin lista' /\ ~Registrado(filas', d))
    <3>1. CASE d = x.llave["ip"] BY <2>5, <3>1 DEF Atendido
    <3>2. CASE d # x.llave["ip"] BY <2>3, <2>6, <3>2 DEF DInv
    <3> QED BY <3>1, <3>2
  <2>8. ASSUME NEW q \in Peticiones, paso'[q] \in Altas
        PROVE  ip(q)' \in Dispositivos
    BY <2>1, <2>2, <2>4, <2>8, SoloCambiaP DEF DInv, ip
  <2> QED BY <2>1, <2>3, <2>7, <2>8 DEF DInv
<1> QED BY <1>5, <1>6, <1>7

LEMMA EliminaAtiende ==
  ASSUME IInv, DInv, NEW p \in Peticiones, Elimina(p),
         UNCHANGED <<archivos, interrumpidas, lista>>
  PROVE  DInv'
<1> DEFINE bajas == Alcance(orden[p].fila, Bajas[orden[p].fila.tabla][turno[p]])
<1>1. paso[p] = "eliminar" BY DEF Elimina
<1>2. PICK a, n : Va(p, a, n) /\ a \notin Altas
  BY DEF Elimina, Falla, Altas
<1>3. \A d : ~EnAlta(p, d) BY <1>1 DEF EnAlta
<1>4. \/ filas' = filas /\ activas' = activas
      \/ /\ filas' = filas \ bajas
         /\ activas' = {d \in activas : \A y \in bajas :
                          y.tabla = "dispositivo" => y.llave["ip"] # d}
  BY DEF Elimina, Falla, tablasVars
<1>5. \A d : Registrado(filas', d) => Registrado(filas, d)
  BY <1>4 DEF Registrado
<1>6. \A d \in activas' : Registrado(filas', d)
  <2>1. CASE filas' = filas /\ activas' = activas BY <2>1 DEF DInv
  <2>2. CASE /\ filas' = filas \ bajas
             /\ activas' = {d \in activas : \A y \in bajas :
                              y.tabla = "dispositivo" => y.llave["ip"] # d}
    <3> SUFFICES ASSUME NEW d \in activas' PROVE Registrado(filas', d) OBVIOUS
    <3>1. d \in activas BY <2>2
    <3>2. PICK x \in filas : x.tabla = "dispositivo" /\ x.llave["ip"] = d
      BY <3>1 DEF DInv, Registrado
    <3>3. x \notin bajas BY <2>2, <3>2
    <3> QED BY <2>2, <3>2, <3>3 DEF Registrado
  <2> QED BY <1>4, <2>1, <2>2
<1>7. ASSUME NEW d \in Dispositivos, Atendido(d) PROVE Atendido(d)'
  BY <1>2, <1>3, <1>7, SigueAtendido
<1>8. ASSUME NEW q \in Peticiones, paso'[q] \in Altas PROVE ip(q)' \in Dispositivos
  BY <1>2, <1>8, SoloCambiaP DEF DInv, ip
<1> QED BY <1>5, <1>6, <1>7, <1>8 DEF DInv

LEMMA CreaAtiende ==
  ASSUME DInv, NEW p \in Peticiones, NEW c \in Campos, CreaArchivo(p, c)
  PROVE  DInv'
<1> USE DEF tablasVars, peticionVars
<1>1. /\ archivos' = [archivos EXCEPT ![ip(p)] = @ \cup {c}] /\ ip(p) \in Dispositivos
      /\ UNCHANGED <<filas, activas, paso, orden, interrumpidas, lista>>
  BY DEF CreaArchivo, DInv, Altas
<1>2. archivos' \in [Dispositivos -> SUBSET Campos] BY <1>1 DEF DInv
<1>3. ASSUME NEW d \in Dispositivos, archivos[d] = Campos PROVE archivos'[d] = Campos
  BY <1>1, <1>3 DEF DInv
<1>4. ASSUME NEW d \in Dispositivos, Atendido(d) PROVE Atendido(d)'
  BY <1>1, <1>3, <1>4 DEF Atendido, EnAlta, ip
<1> QED BY <1>1, <1>2, <1>4 DEF DInv, ip

LEMMA MonitorAtiende ==
  ASSUME DInv, Consulta \/ \E d \in Dispositivos : Mide(d)
  PROVE  DInv'
<1> USE DEF tablasVars, peticionVars, discoVars
<1>1. /\ UNCHANGED <<filas, activas, paso, orden, archivos, interrumpidas>>
      /\ lista' \subseteq lista \/ lista' = activas
  BY DEF Consulta, Mide
<1>2. \A d \in Dispositivos : Atendido(d) => Atendido(d)'
  BY <1>1 DEF Atendido, EnAlta, ip
<1> QED BY <1>1, <1>2 DEF DInv, ip

LEMMA PeticionAtiende ==
  ASSUME IInv, DInv, NEW p \in Peticiones, Peticion(p)
  PROVE  DInv'
<1> USE DEF tablasVars, peticionVars, discoVars
<1>1. CASE Llega(p) /\ UNCHANGED <<discoVars, lista>> BY <1>1, LlegaAtiende
<1>2. CASE Pregunta(p) /\ UNCHANGED <<discoVars, lista>>
  <2>1. paso[p] = "pregunta" /\ filas' = filas /\ activas' = activas
    BY <1>2 DEF Pregunta
  <2>2. orden[p] \in Ordenes
    BY <2>1 DEF IInv, PeticionesValen, Vale, Bien, ConOrden, EnConsulta
  <2>3. orden[p].oper \notin Altas BY <2>2, FilaDeLaOrden DEF Altas
  <2>4. PICK a, n : Va(p, a, n) /\ a \notin Altas
    BY <1>2, <2>3 DEF Pregunta, Altas
  <2>5. \A d : ~EnAlta(p, d) BY <2>1 DEF EnAlta
  <2> QED BY <1>2, <2>1, <2>4, <2>5, PasoEnDisco DEF DInv
<1>3. CASE Inserta(p) /\ UNCHANGED <<discoVars, lista>> BY <1>3, InsertaAtiende
<1>4. CASE Actualiza(p) /\ UNCHANGED <<discoVars, lista>>
  <2>1. /\ paso[p] = "actualizar" /\ filas' = filas /\ Va(p, "libre", 1)
        /\ "libre" \notin Altas
    BY <1>4 DEF Actualiza, Altas
  <2>2. \A d : ~EnAlta(p, d) BY <2>1 DEF EnAlta
  <2>3. \A d \in activas' : Registrado(filas, d)
    BY <1>4 DEF Actualiza, DInv, Registrado
  <2> QED BY <1>4, <2>1, <2>2, <2>3, PasoEnDisco
<1>5. CASE Elimina(p) /\ UNCHANGED <<discoVars, lista>> BY <1>5, EliminaAtiende
<1>6. CASE Mkdir(p)
  <2>1. PICK a \in {"archivos", "repite"} : Va(p, a, 1) BY <1>6 DEF Mkdir
  <2>2. a \in Altas /\ paso[p] \in Altas BY <1>6 DEF Mkdir, Altas
  <2> QED BY <1>6, <2>1, <2>2, PasoEnDisco DEF Mkdir, DInv
<1>7. CASE Limpia(p)
  <2>1. Va(p, IF paso[p] = "repite" THEN "carpeta" ELSE "libre", 1)
        /\ paso[p] \in {"repite", "limpia"}
    BY <1>7 DEF Limpia
  <2>2. UNCHANGED <<filas, activas, archivos, interrumpidas, lista>>
    BY <1>7 DEF Limpia, RmRf
  <2>3. CASE paso[p] = "repite"
    <3>1. Va(p, "carpeta", 1) /\ "carpeta" \in Altas /\ paso[p] \in Altas
      BY <2>1, <2>3 DEF Altas
    <3> QED BY <2>2, <3>1, PasoEnDisco DEF DInv
  <2>4. CASE paso[p] = "limpia"
    <3>1. Va(p, "libre", 1) /\ "libre" \notin Altas /\ \A d : ~EnAlta(p, d)
      BY <2>1, <2>4 DEF EnAlta, Altas
    <3> QED BY <2>2, <3>1, PasoEnDisco DEF DInv
  <2> QED BY <2>1, <2>3, <2>4
<1>8. CASE TerminaAlta(p)
  <2>1. /\ Va(p, "libre", 1) /\ "libre" \notin Altas
        /\ \A d : EnAlta(p, d) => archivos[d] = Campos
    BY <1>8 DEF TerminaAlta, EnAlta, Altas
  <2> QED BY <1>8, <2>1, PasoEnDisco DEF TerminaAlta, DInv
<1>9. CASE \E c \in Campos : CreaArchivo(p, c) BY <1>9, CreaAtiende
<1>10. CASE Interrumpe(p)
  <2>1. /\ Va(p, "libre", 1) /\ "libre" \notin Altas
        /\ \A d \in Dispositivos : EnAlta(p, d) => d \in interrumpidas'
    BY <1>10 DEF Interrumpe, Altas
  <2> QED BY <1>10, <2>1, PasoEnDisco DEF Interrumpe, DInv
<1> QED BY <1>1, <1>2, <1>3, <1>4, <1>5, <1>6, <1>7, <1>8, <1>9, <1>10
        DEF Peticion, Pide

\* A registered device, and one that the monitor is about to update, has its
\* archives or a registration under way or interrupted, for any number of
\* devices, archives and requests (Dispositivo.php:69-134).
THEOREM LosRegistradosTienenArchivos == Spec => []RegistradoConArchivos
<1>1. Init => DInv
  <2> SUFFICES ASSUME Init PROVE DInv OBVIOUS
  <2>1. filas = {} /\ activas = {} /\ lista = {}
        /\ archivos = [d \in Dispositivos |-> {}]
        /\ \A p \in Peticiones : paso[p] = "libre"
    BY DEF Init, InventarioInit
  <2> QED BY <2>1 DEF DInv, Registrado, Altas
<1>2. IInv /\ DInv /\ [Next]_vars => DInv'
  <2> SUFFICES ASSUME IInv, DInv, [Next]_vars PROVE DInv' OBVIOUS
  <2>1. CASE \E p \in Peticiones : Peticion(p) BY <2>1, PeticionAtiende
  <2>2. CASE Consulta \/ \E d \in Dispositivos : Mide(d) BY <2>2, MonitorAtiende
  <2>3. CASE UNCHANGED vars
    BY <2>3 DEF vars, tablasVars, peticionVars, discoVars, DInv, Atendido, EnAlta, ip
  <2> QED BY <2>1, <2>2, <2>3 DEF Next
<1>3. DInv => RegistradoConArchivos
  BY DEF DInv, RegistradoConArchivos, Atendido, Registrado
<1> QED BY <1>1, <1>2, <1>3, InitVale, PasoVale, PTL DEF Spec
=============================================================================
