SPECIFICATION Spec
CONSTANTS
  Parts = {"ring", "atomicRing", "pointerRing", "boundedRing", "frameRing", "xorList", "byteBuffer", "expiringCache", "numberCache", "btree", "consistentHash", "cuckoo", "selector", "diskv", "bigQueue", "lockDetector", "fileLock", "intervals", "bucketWheel", "queue", "bitmap", "set", "rsync", "sentinel", "sentinelInstances", "sentinelWatcher", "kafkaProducer", "kafkaConsumer", "atomics"}
INVARIANTS RingsAgree ListsAgree TreesAgree CachesAgree HashingAgrees QueuesAgree SharedAgree ValuesAgree
CHECK_DEADLOCK FALSE
