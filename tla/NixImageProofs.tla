--------------------------- MODULE NixImageProofs ---------------------------
(* Theorems about NixImage, for any store, closure, copyToRoot list and    *)
(* base image.                                                             *)
EXTENDS NixImage, TLAPS

-----------------------------------------------------------------------------
(* The invariants                                                          *)

\* What the base image contributes.
BaseImage ==
  IF req.base = NoBase THEN NoImage
  ELSE Image(ParseOCITarball(req.base.image).layers, req.base.image.diffIDs, {})

\* The layer that is added to it.
Kept == ReadClosure(req.config, req.closure)
OwnBlob == ClosureBlob(Kept, Links(req.copyToRoots))
OwnLayer == Desc("gzip", OwnBlob, TRUE, Kept)

\* The image with all of its layers.
Whole ==
  Image(Append(BaseImage.layers, OwnLayer), Append(BaseImage.diffIDs, OwnBlob.holds), {})

\* How far the image is, by step.
ImageInv ==
  /\ image \in {NoImage, BaseImage, Whole}
  /\ step \in {"read", "base"} => image = NoImage
  /\ step = "layer" => image = BaseImage
  /\ step \in {"export", "close", "ok"} => image = Whole

\* The closure is read before it is used, and a layer is made only from
\* inputs that are fit for it.
InputsInv ==
  /\ step \in {"base", "layer", "export", "close", "ok"} => paths = Kept
  /\ step \in {"export", "close", "ok"} => ~LayerFails(Kept, req.copyToRoots)

\* The archive holds the image once it is written.
OutInv ==
  /\ step = "close" => out = [state |-> "written", image |-> image]
  /\ step = "ok" => out.state \in {"written", "unsynced"} /\ out.image = image

\* The inductive invariant.
IInv == TypeOK /\ ImageInv /\ InputsInv /\ OutInv

-----------------------------------------------------------------------------
(* Images                                                                  *)

\* The fields of an image and of a layer are what they are made from.
LEMMA Fields ==
  /\ \A l, d, a : /\ Image(l, d, a).layers = l
                  /\ Image(l, d, a).diffIDs = d
                  /\ Image(l, d, a).annotations = a
  /\ \A m, b, n, p : /\ Desc(m, b, n, p).media = m /\ Desc(m, b, n, p).blob = b
                     /\ Desc(m, b, n, p).nix = n /\ Desc(m, b, n, p).paths = p
  /\ \A p, l : /\ ClosureBlob(p, l).gzip = TRUE
               /\ ClosureBlob(p, l).holds.mountpoints = p
               /\ ClosureBlob(p, l).holds.links = l
BY DEF Image, Desc, ClosureBlob

\* An image with one more layer has the layers it had, and that one.
LEMMA AppendLayer ==
  ASSUME NEW S, NEW s \in Seq(S), NEW e
  PROVE  /\ Append(s, e) \in Seq(S \cup {e})
         /\ Len(Append(s, e)) = Len(s) + 1
         /\ DOMAIN Append(s, e) = 1 .. Len(s) + 1
         /\ DOMAIN s = 1 .. Len(s) /\ Len(s) \in Nat
         /\ \A i \in 1 .. Len(s) : Append(s, e)[i] = s[i]
         /\ Append(s, e)[Len(s) + 1] = e
<1>1. s \in Seq(S \cup {e})
  OBVIOUS
<1>2. QED
  BY <1>1

\* A sequence is one of its own members.
LEMMA OwnRange ==
  ASSUME NEW S, NEW s \in Seq(S)
  PROVE  s \in Seq(Range(s))
BY DEF Range

\* A function on the first n numbers is a sequence.
LEMMA FunctionIsSeq ==
  ASSUME NEW n \in Nat, NEW f, f = [i \in 1 .. n |-> f[i]]
  PROVE  f \in Seq(Range(f)) /\ Len(f) = n
<1>1. \A i \in 1 .. n : f[i] \in Range(f)
  BY DEF Range
<1>2. f \in [1 .. n -> Range(f)]
  BY <1>1
<1>3. QED
  BY <1>2

\* No image at all is in order, and has no layers.
LEMMA NoImageAligned == Aligned(NoImage) /\ DOMAIN NoImage.layers = {}
<1>1. NoImage.layers = <<>> /\ NoImage.diffIDs = <<>>
  BY Fields DEF NoImage
<1>2. <<>> \in Seq(Range(<<>>)) /\ DOMAIN <<>> = {} /\ Len(<<>>) = 0
  OBVIOUS
<1>3. QED
  BY <1>1, <1>2 DEF Aligned

\* What is taken from the base image is in order, and its layers are those of
\* the base image as plain tar, without annotations.
LEMMA BaseFacts ==
  ASSUME req \in Requests
  PROVE  /\ Aligned(BaseImage)
         /\ \A i \in DOMAIN BaseImage.layers :
              /\ BaseImage.layers[i] = Desc("tar", req.base.image.layers[i].blob, FALSE, {})
              /\ BaseImage.layers[i].media = "tar"
              /\ BaseImage.layers[i].blob = req.base.image.layers[i].blob
              /\ BaseImage.layers[i].paths = {}
         /\ BaseImage.layers \in Seq(Range(BaseImage.layers))
         /\ DOMAIN BaseImage.layers = DOMAIN req.base.image.layers
<1>1. CASE req.base = NoBase
  <2>1. BaseImage = NoImage /\ req.base.image = NoImage
    BY <1>1 DEF BaseImage, NoBase
  <2>2. QED
    BY <2>1, NoImageAligned DEF Aligned
<1>2. CASE req.base # NoBase
  <2> DEFINE base == req.base.image
             f == [i \in DOMAIN base.layers |-> Desc("tar", base.layers[i].blob, FALSE, {})]
  <2>1. Aligned(base)
    BY BasesAssumption
  <2>2. BaseImage.layers = f /\ BaseImage.diffIDs = base.diffIDs
    BY <1>2 DEF BaseImage, ParseOCITarball, Image
  <2>3. base.layers \in Seq(Range(base.layers)) /\ Len(base.layers) \in Nat
    BY <2>1 DEF Aligned
  <2>4. DOMAIN base.layers = 1 .. Len(base.layers)
    BY <2>3
  <2>5. f \in Seq(Range(f)) /\ Len(f) = Len(base.layers) /\ DOMAIN f = DOMAIN base.layers
    <3>1. f = [i \in 1 .. Len(base.layers) |-> f[i]] /\ DOMAIN f = 1 .. Len(base.layers)
      BY <2>4
    <3> HIDE DEF f
    <3>2. QED
      BY <2>3, <2>4, <3>1, FunctionIsSeq
  <2>6. \A i \in DOMAIN f : f[i].blob = base.layers[i].blob
    BY DEF Desc
  <2> HIDE DEF f
  <2>7. Aligned(BaseImage)
    BY <2>1, <2>2, <2>5, <2>6 DEF Aligned
  <2>8. ASSUME NEW i \in DOMAIN f
        PROVE  /\ f[i] = Desc("tar", base.layers[i].blob, FALSE, {})
               /\ f[i].media = "tar" /\ f[i].blob = base.layers[i].blob /\ f[i].paths = {}
    BY <2>8 DEF f, Desc
  <2>9. QED
    BY <2>2, <2>5, <2>7, <2>8
<1>3. QED
  BY <1>1, <1>2

\* The layers of the whole image.
LEMMA WholeFacts ==
  ASSUME req \in Requests
  PROVE  /\ Aligned(Whole)
         /\ Whole.layers # <<>>
         /\ Last(Whole.layers) = OwnLayer
         /\ DOMAIN Whole.layers = DOMAIN BaseImage.layers \cup {Len(BaseImage.layers) + 1}
         /\ \A i \in DOMAIN BaseImage.layers : Whole.layers[i] = BaseImage.layers[i]
         /\ Whole.layers[Len(BaseImage.layers) + 1] = OwnLayer
         /\ Whole.annotations = {}
<1> DEFINE ls == BaseImage.layers
           ds == BaseImage.diffIDs
<1>1. /\ Whole.layers = Append(ls, OwnLayer) /\ Whole.diffIDs = Append(ds, OwnBlob.holds)
      /\ Whole.annotations = {} /\ OwnLayer.blob = OwnBlob
  BY DEF Whole, OwnLayer, Image, Desc
<1>2. Aligned(BaseImage)
  BY BaseFacts
<1>3. /\ ls \in Seq(Range(ls)) /\ ds \in Seq(Range(ds)) /\ Len(ls) = Len(ds)
      /\ \A i \in DOMAIN ls : ds[i] = ls[i].blob.holds
  BY <1>2 DEF Aligned
<1> HIDE DEF ls, ds
<1>4. /\ Append(ls, OwnLayer) \in Seq(Range(ls) \cup {OwnLayer})
      /\ Len(Append(ls, OwnLayer)) = Len(ls) + 1
      /\ DOMAIN Append(ls, OwnLayer) = 1 .. Len(ls) + 1
      /\ DOMAIN ls = 1 .. Len(ls) /\ Len(ls) \in Nat
      /\ \A i \in 1 .. Len(ls) : Append(ls, OwnLayer)[i] = ls[i]
      /\ Append(ls, OwnLayer)[Len(ls) + 1] = OwnLayer
  BY <1>3, AppendLayer
<1>5. /\ Append(ds, OwnBlob.holds) \in Seq(Range(ds) \cup {OwnBlob.holds})
      /\ Len(Append(ds, OwnBlob.holds)) = Len(ds) + 1
      /\ \A i \in 1 .. Len(ds) : Append(ds, OwnBlob.holds)[i] = ds[i]
      /\ Append(ds, OwnBlob.holds)[Len(ds) + 1] = OwnBlob.holds
  BY <1>3, AppendLayer
<1>6. Aligned(Whole)
  <2>1. Whole.layers \in Seq(Range(Whole.layers)) /\ Whole.diffIDs \in Seq(Range(Whole.diffIDs))
    BY <1>1, <1>4, <1>5, OwnRange
  <2>2. ASSUME NEW i \in DOMAIN Whole.layers
        PROVE  Whole.diffIDs[i] = Whole.layers[i].blob.holds
    <3>1. CASE i \in 1 .. Len(ls)
      BY <1>1, <1>3, <1>4, <1>5, <3>1
    <3>2. CASE i = Len(ls) + 1
      BY <1>1, <1>3, <1>4, <1>5, <3>2
    <3>3. i \in 1 .. Len(ls) \/ i = Len(ls) + 1
      BY <1>1, <1>4
    <3>4. QED
      BY <3>1, <3>2, <3>3
  <2>3. QED
    BY <1>1, <1>3, <1>4, <1>5, <2>1, <2>2 DEF Aligned
<1>7. Whole.layers # <<>> /\ Last(Whole.layers) = OwnLayer
  BY <1>1, <1>4 DEF Last
<1>8. QED
  BY <1>1, <1>4, <1>6, <1>7 DEF ls

\* The blobs of no image, of the base image and of the whole image.
LayerBlobs(img) == {img.layers[i].blob : i \in DOMAIN img.layers}

LEMMA BlobFacts ==
  ASSUME req \in Requests
  PROVE  /\ LayerBlobs(NoImage) = {}
         /\ LayerBlobs(BaseImage) = LayerBlobs(req.base.image)
         /\ LayerBlobs(Whole) = LayerBlobs(BaseImage) \cup {OwnBlob}
<1>1. LayerBlobs(NoImage) = {}
  BY NoImageAligned DEF LayerBlobs
<1>2. LayerBlobs(BaseImage) = LayerBlobs(req.base.image)
  <2>1. \A i \in DOMAIN BaseImage.layers :
          BaseImage.layers[i].blob = req.base.image.layers[i].blob
    BY BaseFacts
  <2>2. DOMAIN BaseImage.layers = DOMAIN req.base.image.layers
    BY BaseFacts
  <2>3. QED
    BY <2>1, <2>2 DEF LayerBlobs
<1>3. LayerBlobs(Whole) = LayerBlobs(BaseImage) \cup {OwnBlob}
  <2> DEFINE last == Len(BaseImage.layers) + 1
  <2>1. /\ DOMAIN Whole.layers = DOMAIN BaseImage.layers \cup {last}
        /\ \A i \in DOMAIN BaseImage.layers : Whole.layers[i] = BaseImage.layers[i]
        /\ Whole.layers[last] = OwnLayer
    BY WholeFacts
  <2>2. OwnLayer.blob = OwnBlob
    BY DEF OwnLayer, Desc
  <2> HIDE DEF last
  <2>3. QED
    BY <2>1, <2>2 DEF LayerBlobs
<1>4. QED
  BY <1>1, <1>2, <1>3

-----------------------------------------------------------------------------
(* The steps                                                               *)

\* A build starts with nothing.
LEMMA InitIInv ==
  ASSUME Init
  PROVE  IInv
<1>1. blobs = {image.layers[i].blob : i \in DOMAIN image.layers}
  BY BlobFacts DEF Init, LayerBlobs
<1>2. TypeOK
  BY <1>1 DEF Init, TypeOK, None
<1>3. ImageInv /\ InputsInv /\ OutInv
  BY DEF Init, ImageInv, InputsInv, OutInv
<1>4. QED
  BY <1>2, <1>3 DEF IInv

\* The arguments do not change, and so what is made from them.
LEMMA SameArguments ==
  ASSUME req' = req
  PROVE  /\ BaseImage' = BaseImage /\ Kept' = Kept /\ Whole' = Whole
         /\ LayerFails(Kept, req.copyToRoots)' = LayerFails(Kept, req.copyToRoots)
<1>1. req.base' = req.base /\ req.closure' = req.closure /\ req.config' = req.config
      /\ req.copyToRoots' = req.copyToRoots
  OBVIOUS
<1>2. BaseImage' = BaseImage
  BY DEF BaseImage
<1>3. Kept' = Kept
  BY DEF Kept
<1>4. OwnBlob' = OwnBlob
  BY <1>3 DEF OwnBlob
<1>5. OwnLayer' = OwnLayer
  BY <1>3, <1>4 DEF OwnLayer
<1>6. Whole' = Whole
  BY <1>2, <1>4, <1>5 DEF Whole
<1>7. LayerFails(Kept, req.copyToRoots)' = LayerFails(Kept, req.copyToRoots)
  BY <1>3
<1>8. QED
  BY <1>2, <1>3, <1>6, <1>7

\* Every step keeps the invariant.
LEMMA NextIInv ==
  ASSUME IInv, [Next]_vars
  PROVE  IInv'
<1>0. /\ TypeOK /\ ImageInv /\ InputsInv /\ OutInv
      /\ req \in Requests
      /\ req' = req
  BY DEF IInv, TypeOK, Next, vars, ReadInputs, InitializeManifest, BadBase, WriteLayer,
         BadLayer, Export, Close, IOError, Fail
<1>1. /\ BaseImage' = BaseImage /\ Kept' = Kept /\ Whole' = Whole
      /\ LayerFails(Kept, req.copyToRoots)' = LayerFails(Kept, req.copyToRoots)
  BY <1>0, SameArguments
<1>2. CASE ReadInputs
  <2>1. paths' = Kept /\ Kept \subseteq Paths
    BY <1>0, <1>2, RequestsAssumption DEF ReadInputs, Kept, ReadClosure, Range
  <2>2. TypeOK'
    BY <1>0, <1>2, <2>1 DEF TypeOK, ReadInputs, Partial
  <2>3. ImageInv' /\ InputsInv' /\ OutInv'
    BY <1>0, <1>1, <1>2, <2>1 DEF ReadInputs, ImageInv, InputsInv, OutInv
  <2>4. QED
    BY <2>2, <2>3 DEF IInv
<1>3. CASE InitializeManifest
  <2>1. image = NoImage /\ blobs = {} /\ image.annotations = {}
    BY <1>0, <1>3, BlobFacts
    DEF InitializeManifest, ImageInv, TypeOK, LayerBlobs, NoImage, Image
  <2>2. image' = BaseImage
    BY <1>3, <2>1 DEF InitializeManifest, BaseImage, ParseOCITarball, Image
  <2>3. blobs' = LayerBlobs(BaseImage)
    <3>1. CASE req.base = NoBase
      <4>1. blobs' = blobs /\ BaseImage = NoImage
        BY <1>3, <3>1 DEF InitializeManifest, BaseImage
      <4>2. QED
        BY <1>0, <2>1, <4>1, BlobFacts
    <3>2. CASE req.base # NoBase
      <4>1. BaseImage.layers = ParseOCITarball(req.base.image).layers
        BY <3>2 DEF BaseImage, Image
      <4>2. QED
        BY <1>3, <2>1, <3>2, <4>1 DEF InitializeManifest, LayerBlobs
    <3>3. QED
      BY <3>1, <3>2
  <2>4. TypeOK'
    BY <1>0, <1>3, <2>2, <2>3 DEF TypeOK, InitializeManifest, LayerBlobs
  <2>5. ImageInv' /\ InputsInv' /\ OutInv'
    BY <1>0, <1>1, <1>3, <2>2 DEF InitializeManifest, ImageInv, InputsInv, OutInv
  <2>6. QED
    BY <2>4, <2>5 DEF IInv
<1>4. CASE WriteLayer
  <2>1. image = BaseImage /\ paths = Kept /\ ~LayerFails(Kept, req.copyToRoots)
    BY <1>0, <1>4 DEF WriteLayer, ImageInv, InputsInv
  <2>2. BaseImage.annotations = {}
    BY DEF BaseImage, NoImage, Image
  <2>3. image' = Whole /\ blobs' = blobs \cup {OwnBlob}
    BY <1>4, <2>1, <2>2 DEF WriteLayer, Whole, OwnLayer, OwnBlob
  <2>4. blobs' = LayerBlobs(Whole)
    BY <1>0, <2>1, <2>3, BlobFacts DEF TypeOK, LayerBlobs
  <2>5. TypeOK'
    BY <1>0, <1>4, <2>3, <2>4 DEF TypeOK, WriteLayer, LayerBlobs
  <2>6. ImageInv' /\ InputsInv' /\ OutInv'
    BY <1>0, <1>1, <1>4, <2>1, <2>3 DEF WriteLayer, ImageInv, InputsInv, OutInv
  <2>7. QED
    BY <2>5, <2>6 DEF IInv
<1>5. CASE Export \/ Close
  <2>1. /\ UNCHANGED <<paths, image, blobs>>
        /\ step \in {"export", "close"} /\ step' \in {"close", "ok"}
    BY <1>5 DEF Export, Close
  <2>2. OutInv' /\ out'.state \in {"written", "unsynced"}
    BY <1>0, <1>5, <2>1 DEF Export, Close, OutInv
  <2>3. TypeOK'
    BY <1>0, <2>1, <2>2 DEF TypeOK, OutInv
  <2>4. ImageInv' /\ InputsInv'
    BY <1>0, <1>1, <2>1 DEF ImageInv, InputsInv
  <2>5. QED
    BY <2>2, <2>3, <2>4 DEF IInv
<1>6. CASE Fail
  <2>1. step' = "failed" /\ UNCHANGED <<req, paths, image, blobs, out>>
    BY <1>6 DEF Fail
  <2>2. TypeOK'
    BY <1>0, <2>1 DEF TypeOK
  <2>3. ImageInv' /\ InputsInv' /\ OutInv'
    BY <1>0, <1>1, <2>1 DEF ImageInv, InputsInv, OutInv
  <2>4. QED
    BY <2>2, <2>3 DEF IInv
<1>7. CASE UNCHANGED vars
  <2>1. UNCHANGED <<step, req, paths, image, blobs, out>>
    BY <1>7 DEF vars
  <2>2. TypeOK'
    BY <1>0, <2>1 DEF TypeOK
  <2>3. ImageInv' /\ InputsInv' /\ OutInv'
    BY <1>0, <1>1, <2>1 DEF ImageInv, InputsInv, OutInv
  <2>4. QED
    BY <2>2, <2>3 DEF IInv
<1>8. QED
  BY <1>2, <1>3, <1>4, <1>5, <1>6, <1>7 DEF Next, BadBase, BadLayer, IOError

-----------------------------------------------------------------------------
(* Theorems                                                                *)

\* The store that is exported holds the layers of the manifest, no more and
\* no fewer (generate.go:72, 84, 148 and 225-229), so that Export finds what the
\* manifest names.
THEOREM TypeCorrect == Spec => []TypeOK
<1>1. IInv => TypeOK
  BY DEF IInv
<1>2. QED
  BY <1>1, InitIInv, NextIInv, PTL DEF Spec

\* Layers and diff IDs stay in step (generate.go:70 and 84, 148 and 152) at
\* every step, over any base image whose own are.
THEOREM LayersAreAligned == Spec => []LayersAligned
<1>1. IInv => LayersAligned
  <2> SUFFICES ASSUME IInv PROVE Aligned(image)
    BY DEF LayersAligned
  <2>1. image \in {NoImage, BaseImage, Whole} /\ req \in Requests
    BY DEF IInv, ImageInv, TypeOK
  <2>2. QED
    BY <2>1, NoImageAligned, BaseFacts, WholeFacts
<1>2. QED
  BY <1>1, InitIInv, NextIInv, PTL DEF Spec

\* The links of a build that succeeds lead into mounted store paths
\* (generate.go:238-240), since it refuses a copyToRoot that is no directory
\* and the config is the only path of the closure that it leaves out.
THEOREM LinksAreMounted == Spec => []LinksResolve
<1>1. IInv => LinksResolve
  <2> SUFFICES ASSUME IInv, step = "ok",
                      NEW l \in Last(out.image.layers).blob.holds.links
               PROVE  l[2] \in Mounted(out.image)
    BY DEF LinksResolve
  <2>1. out.image = Whole /\ req \in Requests /\ ~LayerFails(Kept, req.copyToRoots)
    BY DEF IInv, ImageInv, InputsInv, OutInv, TypeOK
  <2>2. Last(Whole.layers) = OwnLayer /\ OwnLayer.blob = OwnBlob
    BY <2>1, WholeFacts DEF OwnLayer, Desc
  <2>3. l \in Links(req.copyToRoots)
    BY <2>1, <2>2 DEF OwnBlob, ClosureBlob
  <2>4. l[2] \in Range(req.copyToRoots)
    BY <2>3 DEF Links
  <2>5. l[2] # req.config
    BY <2>1, <2>4, RequestsAssumption DEF LayerFails
  <2>6. l[2] \in Kept
    BY <2>1, <2>4, <2>5, RequestsAssumption DEF Kept, ReadClosure
  <2>7. OwnLayer.paths = Kept
    BY DEF OwnLayer, Desc
  <2>8. /\ Len(BaseImage.layers) + 1 \in DOMAIN Whole.layers
        /\ Whole.layers[Len(BaseImage.layers) + 1] = OwnLayer
    BY <2>1, WholeFacts
  <2>9. QED
    BY <2>1, <2>6, <2>7, <2>8 DEF Mounted
<1>2. QED
  BY <1>1, InitIInv, NextIInv, PTL DEF Spec

\* Base images that mount nothing: other tools made them.
PlainBases == \A r \in Requests : \A i \in DOMAIN r.base.image.layers :
  LET layer == r.base.image.layers[i] IN
    layer.paths = {} /\ layer.blob.holds.mountpoints = {}

\* What the snapshotter is told to mount is the closure without the config
\* (build.go:78-99, generate.go:77-84), and all of it has a mountpoint in a
\* layer, over base images that have no mounts of their own.
THEOREM MountsAreComplete == ASSUME PlainBases PROVE Spec => []MountsComplete
<1>1. IInv => MountsComplete
  <2> SUFFICES ASSUME IInv, step = "ok"
               PROVE  /\ Mounted(out.image) = Mounted(req.base.image)
                           \cup (Range(req.closure) \ {req.config})
                      /\ Mounted(out.image) = Mountpoints(out.image)
    BY DEF MountsComplete
  <2>1. out.image = Whole /\ req \in Requests
    BY DEF IInv, ImageInv, OutInv, TypeOK
  <2> DEFINE last == Len(BaseImage.layers) + 1
  <2>2. /\ DOMAIN Whole.layers = DOMAIN BaseImage.layers \cup {last}
        /\ \A i \in DOMAIN BaseImage.layers : Whole.layers[i] = BaseImage.layers[i]
        /\ Whole.layers[last] = OwnLayer
    BY <2>1, WholeFacts
  <2> HIDE DEF last
  <2>3. OwnLayer.paths = Kept /\ OwnLayer.blob.holds.mountpoints = Kept
    BY DEF OwnLayer, OwnBlob, Desc, ClosureBlob
  <2>4. ASSUME NEW i \in DOMAIN BaseImage.layers
        PROVE  BaseImage.layers[i].paths = {} /\ BaseImage.layers[i].blob.holds.mountpoints = {}
    <3>1. /\ BaseImage.layers[i].paths = {}
          /\ BaseImage.layers[i].blob = req.base.image.layers[i].blob
          /\ i \in DOMAIN req.base.image.layers
      BY <2>1, <2>4, BaseFacts
    <3>2. QED
      BY <2>1, <3>1 DEF PlainBases
  <2>5. Mounted(Whole) = Kept /\ Mountpoints(Whole) = Kept
    BY <2>2, <2>3, <2>4 DEF Mounted, Mountpoints
  <2>6. Mounted(req.base.image) = {}
    BY <2>1 DEF PlainBases, Mounted
  <2>7. QED
    BY <2>1, <2>5, <2>6 DEF Kept, ReadClosure
<1>2. QED
  BY <1>1, InitIInv, NextIInv, PTL DEF Spec
=============================================================================
